---- MODULE Spec2Model ----
(***************************************************************************)
(* Secondary index builder (src/secondary/builder.cpp, src/util/util.h).   *)
(*                                                                         *)
(* Fixed-width integers are represented by their two's-complement signed   *)
(* twin: a uint32_t / uint64_t whose top bit is set is the negative number *)
(* with the same bit pattern.  A cast between int64_t and uint64_t, or the *)
(* truncation of a small int64_t to uint32_t, keeps the bit pattern, so it *)
(* keeps the twin; what changes with the type is the comparison (ULess for *)
(* unsigned types, < for signed ones).  File positions, lengths and        *)
(* row-ids are small non-negative numbers.                                 *)
(***************************************************************************)
EXTENDS Integers, Sequences, FiniteSets, Bags, TLC

VARIABLES
    pc,              \* control point: the driver's phase, or the place inside Done / WriteMeta
    dSrcAttrs,       \* the attribute list given to CreateBuilder
    iMemoryLimit,    \* the memory limit given to CreateBuilder
    m_tRowID,        \* Builder_c::m_tRowID
    m_iMaxRows,      \* Builder_c::m_iMaxRows
    m_dRawWriter,    \* Builder_c::m_dRawWriter, slot i+1 is source attribute i
    m_dCidWriter,    \* Builder_c::m_dCidWriter
    m_dAttrs,        \* Builder_c::m_dAttrs
    tmpFiles,        \* the collectors' files <output>.<attr>.tmp, by source attribute
    disk,            \* the output file and the three side files
    loc,             \* the locals of Done and WriteMeta
    fed,             \* history: the bag of pairs each collector slot accepted
    merged,          \* history, one entry per processed SIWriter: its number of runs and
                     \* the pair stream it forwarded to its RowWriter
    nRowCalls,       \* number of SetRowID calls so far
    nAttrCalls,      \* number of SetAttr calls so far that appended pairs
    sError,          \* the error string Done returned, "" when none
    rw               \* a RowWriter_t under test (block encoder specification)

vars == <<pc, dSrcAttrs, iMemoryLimit, m_tRowID, m_iMaxRows, m_dRawWriter, m_dCidWriter,
          m_dAttrs, tmpFiles, disk, loc, fed, merged, nRowCalls, nAttrCalls,
          sError, rw>>

(***************************************************************************)
(* Program constants                                                       *)
(***************************************************************************)
VALUES_PER_BLOCK == 128

\* sizeof(uint32_t), sizeof(uint64_t)
SizeofU32 == 4
SizeofU64 == 8

\* std::max ( 1000, ... ) in Builder_c::Setup
MinMaxRows == 1000

(***************************************************************************)
(* Bounds of the model                                                     *)
(***************************************************************************)
\* SetRowID calls per build
MaxRowCalls == 2
\* value groups staged in the row writer of the block encoder specification
MaxGroups == 3
\* SetAttr calls per build that append pairs (calls that append nothing are not counted)
MaxAttrCalls == 2

\* the row-ids the driver supplies
RowIDs == {0, 1, 2}
\* the scalar values the driver supplies
ScalarInputs == {-1, 129}
\* the byte strings the driver supplies
Strings == {"a", "b", "c"}
Arrays == {<< >>, ([i \in 1..(2 * VALUES_PER_BLOCK) |-> IF i < VALUES_PER_BLOCK THEN i ELSE VALUES_PER_BLOCK])}
\* the attribute indexes the driver passes to SetAttr
AttrIndexes == {0, 1}
\* the memory limits given to CreateBuilder
MemoryLimits == {48000}

Attr(iAttr, eType) == [m_iAttr |-> iAttr, m_eType |-> eType]

\* the attribute lists given to CreateBuilder
AttrLists ==
    { << Attr(0, "INT64"), Attr(1, "UINT32SET") >>,
      << Attr(0, "NONE"), Attr(1, "STRING") >> }

(***************************************************************************)
(* util.h                                                                  *)
(***************************************************************************)
Max(a, b) == IF a > b THEN a ELSE b

\* unsigned comparison of two values given by their signed twins
ULess(a, b) == IF (a < 0) = (b < 0) THEN a < b ELSE b < 0

RECURSIVE CalcPackedLenFrom(_, _)
CalcPackedLenFrom(uValue, iNumBytes) ==
    IF uValue = 0 THEN iNumBytes ELSE CalcPackedLenFrom(uValue \div 128, iNumBytes + 1)

\* ByteCodec_c::CalcPackedLen; a value with the top bit set takes every 7-bit group of its width
CalcPackedLen(tValue, iBits) ==
    IF tValue < 0 THEN (iBits + 6) \div 7 ELSE CalcPackedLenFrom(tValue \div 128, 1)

\* the bag of the elements s[lo..hi]
RECURSIVE BagOfSeq(_, _, _)
BagOfSeq(s, lo, hi) ==
    IF lo > hi THEN EmptyBag
    ELSE IF lo = hi THEN SetToBag({s[lo]})
    ELSE LET mid == (lo + hi) \div 2
         IN  BagOfSeq(s, lo, mid) (+) BagOfSeq(s, mid + 1, hi)

(***************************************************************************)
(* Collectors: RawWriter_T                                                 *)
(***************************************************************************)
NULL == [kind |-> "NULL"]

IsNull(p) == p.kind = "NULL"

RawValue_T(tVal, tRowid) == [m_tValue |-> tVal, m_tRowid |-> tRowid]

\* the RawWriter_T instantiation Builder_c::Setup picks for an attribute type
WriterKind(eType) ==
    CASE eType \in {"UINT32", "TIMESTAMP", "UINT32SET"} -> "U32"
      [] eType = "FLOAT" -> "F32"
      [] eType = "STRING" -> "U64"
      [] eType \in {"INT64", "INT64SET"} -> "I64"
      [] OTHER -> "NULL"

\* operator< of the collector's VALUE type
ValueLess(kind, a, b) == IF kind = "I64" THEN a < b ELSE ULess(a, b)

\* a comparison whose tie-break puts the larger row-id first
RawValueCmpRowidDesc(kind, tA, tB) ==
    IF tA.m_tValue = tB.m_tValue
    THEN tA.m_tRowid > tB.m_tRowid
    ELSE ValueLess(kind, tA.m_tValue, tB.m_tValue)

\* a comparison without the row-id tie-break
RawValueCmpNoRowid(kind, tA, tB) == ValueLess(kind, tA.m_tValue, tB.m_tValue)

RawValueCmp(kind, tA, tB) ==
    IF tA.m_tValue = tB.m_tValue
    THEN tA.m_tRowid < tB.m_tRowid
    ELSE ValueLess(kind, tA.m_tValue, tB.m_tValue)

\* sizeof ( RawValue_T<VALUE> )
GetItemSize(kind) == IF kind \in {"U32", "F32"} THEN 8 ELSE 16

NoFile == [exists |-> FALSE, data |-> << >>]
EmptyFile == [exists |-> TRUE, data |-> << >>]

NewRawWriter(tSrcAttr) ==
    [kind |-> WriterKind(tSrcAttr.m_eType), m_eAttrType |-> tSrcAttr.m_eType,
     iAttr |-> tSrcAttr.m_iAttr, m_dRows |-> << >>, m_dOffset |-> << >>, m_iFileSize |-> 0]

\* m_tFile.GetPos() of a collector
RawGetPos(w, file) == Len(file.data) * GetItemSize(w.kind)

\* a Flush that records an offset for an empty buffer too
RawFlushAlways(w, file) ==
    LET sorted == SortSeq(w.m_dRows, LAMBDA a, b : RawValueCmp(w.kind, a, b))
    IN  << [w EXCEPT !.m_dOffset = Append(@, RawGetPos(w, file)), !.m_dRows = << >>],
           [file EXCEPT !.data = @ \o sorted] >>

\* RawWriter_T::Flush
RawFlush(w, file) ==
    IF Len(w.m_dRows) = 0
    THEN <<w, file>>
    ELSE LET sorted == SortSeq(w.m_dRows, LAMBDA a, b : RawValueCmp(w.kind, a, b))
         IN  << [w EXCEPT !.m_dOffset = Append(@, RawGetPos(w, file)), !.m_dRows = << >>],
                [file EXCEPT !.data = @ \o sorted] >>

RawDone(w, file) ==
    LET f == RawFlush(w, file)
    IN  << [f[1] EXCEPT !.m_iFileSize = RawGetPos(w, f[2])], f[2] >>

\* the string hash of the active collation
StrHash(s) == CASE s = "a" -> 11 [] s = "b" -> -3 [] OTHER -> 11

\* the pairs the three SetAttr overloads of RawWriter_T<VALUE> append
RawSetAttrScalar(kind, tRowID, tAttr) ==
    IF kind \in {"U32", "I64"} THEN << RawValue_T(tAttr, tRowID) >> ELSE << >>

\* a byte-string overload that every collector accepts
RawSetAttrBytesAny(kind, tRowID, pData) == << RawValue_T(StrHash(pData), tRowID) >>

RawSetAttrBytes(kind, tRowID, pData) ==
    IF kind = "U64" THEN << RawValue_T(StrHash(pData), tRowID) >> ELSE << >>

\* an array overload that stores the first element only
RawSetAttrArrayFirst(kind, tRowID, pData) ==
    IF kind \in {"U32", "I64"} /\ Len(pData) > 0
    THEN << RawValue_T(pData[1], tRowID) >>
    ELSE << >>

RawSetAttrArray(kind, tRowID, pData) ==
    IF kind \in {"U32", "I64"}
    THEN [i \in 1..Len(pData) |-> RawValue_T(pData[i], tRowID)]
    ELSE << >>

(***************************************************************************)
(* Builder_c::Setup                                                        *)
(***************************************************************************)
RawWriterSlots(attrs) == IF Len(attrs) = 0 THEN 0 ELSE attrs[Len(attrs)].m_iAttr + 1

\* m_dRawWriter after the loop of Setup: the last attribute of the list with that source index
SetupRawWriter(attrs) ==
    [s \in 1..RawWriterSlots(attrs) |->
        LET hits == { i \in 1..Len(attrs) :
                        attrs[i].m_iAttr = s - 1 /\ WriterKind(attrs[i].m_eType) # "NULL" }
        IN  IF hits = {} THEN NULL
            ELSE NewRawWriter(attrs[CHOOSE i \in hits : \A j \in hits : j <= i])]

\* an m_dAttrs with an entry for every attribute of the list
SetupAttrsAll(attrs) ==
    [i \in 1..Len(attrs) |->
        [m_eType |-> attrs[i].m_eType, m_iSrcAttr |-> attrs[i].m_iAttr,
         m_iAttr |-> i - 1, m_sName |-> attrs[i].m_iAttr]]

SetupAttrs(attrs) ==
    LET live == (SelectSeq(attrs, LAMBDA a : WriterKind(a.m_eType) # "NULL"))
    IN  [i \in 1..Len(live) |->
            [m_eType |-> live[i].m_eType, m_iSrcAttr |-> live[i].m_iAttr,
             m_iAttr |-> i - 1, m_sName |-> live[i].m_iAttr]]

RECURSIVE SumItemSize(_, _)
SumItemSize(writers, i) ==
    IF i > Len(writers) THEN 0
    ELSE (IF IsNull(writers[i]) THEN 0 ELSE GetItemSize(writers[i].kind))
         + SumItemSize(writers, i + 1)

\* a threshold without the floor of 1000
SetupMaxRowsNoFloor(limit, writers) == (limit \div 3) \div SumItemSize(writers, 1)

SetupMaxRows(limit, writers) == Max(MinMaxRows, (limit \div 3) \div SumItemSize(writers, 1))

SrcIndexes == 0..2

SetupTmpFiles(attrs) ==
    [a \in SrcIndexes |->
        IF \E i \in 1..Len(attrs) : attrs[i].m_iAttr = a /\ WriterKind(attrs[i].m_eType) # "NULL"
        THEN EmptyFile ELSE NoFile]

FileNames == {"dst", "tmp.meta", "tmp.pgm", "tmp.pgmvalues"}

NoLoc == [iWriter |-> 0, dBlocksOffStart |-> << >>, dBlocksCount |-> << >>, uMetaOff |-> 0]

NoRW == [ws |-> << >>, counts |-> << >>]

\* the builder CreateBuilder returns for dSrcAttrs and iMemoryLimit: Builder_c::Setup has run
Constructed ==
    /\ pc = "collect"
    /\ m_tRowID = 0
    /\ m_dRawWriter = SetupRawWriter(dSrcAttrs)
    /\ m_iMaxRows = SetupMaxRows(iMemoryLimit, m_dRawWriter)
    /\ m_dCidWriter = << >>
    /\ m_dAttrs = SetupAttrs(dSrcAttrs)
    /\ tmpFiles = SetupTmpFiles(dSrcAttrs)
    /\ disk = [f \in FileNames |-> NoFile]
    /\ loc = NoLoc
    /\ fed = [s \in 1..RawWriterSlots(dSrcAttrs) |-> EmptyBag]
    /\ merged = << >>
    /\ nRowCalls = 0
    /\ nAttrCalls = 0
    /\ sError = ""
    /\ rw = NoRW

Init ==
    /\ dSrcAttrs \in AttrLists
    /\ iMemoryLimit \in MemoryLimits
    /\ Constructed

(***************************************************************************)
(* Builder_c::SetRowID, SetAttr, Flush                                     *)
(***************************************************************************)
\* Builder_c::Flush: every collector flushes; slot s gives <<collector, file>>
BuilderFlush ==
    [s \in 1..Len(m_dRawWriter) |->
        IF IsNull(m_dRawWriter[s]) THEN <<m_dRawWriter[s], NoFile>>
        ELSE RawFlush(m_dRawWriter[s], tmpFiles[s - 1])]

\* the collectors and their files out of a per-slot result of Flush or Done
WritersOf(dDone) == [s \in 1..Len(dDone) |-> dDone[s][1]]

FilesOf(dDone) ==
    [a \in SrcIndexes |->
        IF a + 1 <= Len(dDone) /\ ~IsNull(dDone[a + 1][1]) THEN dDone[a + 1][2] ELSE tmpFiles[a]]

\* a SetRowID that never flushes
SetRowIDNoFlush(tRowID) ==
    /\ pc = "collect"
    /\ nRowCalls' = nRowCalls + 1
    /\ m_tRowID' = tRowID
    /\ UNCHANGED <<m_dRawWriter, tmpFiles>>
    /\ UNCHANGED <<pc, dSrcAttrs, iMemoryLimit, m_iMaxRows, m_dCidWriter, m_dAttrs, disk, loc,
                   fed, merged, nAttrCalls, sError, rw>>

\* Builder_c::SetRowID

SetRowIDCall(tRowID) ==
    /\ nRowCalls' = nRowCalls + 1
    /\ m_tRowID' = tRowID
    /\ IF tRowID % m_iMaxRows = 0
       THEN LET dDone == BuilderFlush
            IN  /\ m_dRawWriter' = WritersOf(dDone)
                /\ tmpFiles' = FilesOf(dDone)
       ELSE UNCHANGED <<m_dRawWriter, tmpFiles>>
    /\ UNCHANGED <<pc, dSrcAttrs, iMemoryLimit, m_iMaxRows, m_dCidWriter, m_dAttrs, disk, loc,
                   fed, merged, nAttrCalls, sError, rw>>

\* Builder_c::SetRowID as the driver of a build calls it: before Done, a bounded number
\* of times
SetRowID(tRowID) == pc = "collect" /\ nRowCalls < MaxRowCalls /\ SetRowIDCall(tRowID)

\* the guard of the three Builder_c::SetAttr overloads
HasWriter(iAttr) ==
    /\ iAttr >= 0
    /\ iAttr < Len(m_dRawWriter)
    /\ ~IsNull(m_dRawWriter[iAttr + 1])

BuilderSetAttrCall(iAttr, pairs) ==
    /\ IF HasWriter(iAttr) /\ Len(pairs) > 0
       THEN /\ m_dRawWriter' = [m_dRawWriter EXCEPT ![iAttr + 1].m_dRows = @ \o pairs]
            /\ fed' = [fed EXCEPT ![iAttr + 1] = @ (+) BagOfSeq(pairs, 1, Len(pairs))]
            /\ nAttrCalls' = nAttrCalls + 1
       ELSE UNCHANGED <<m_dRawWriter, fed, nAttrCalls>>
    /\ UNCHANGED <<pc, dSrcAttrs, iMemoryLimit, m_tRowID, m_iMaxRows, m_dCidWriter, m_dAttrs,
                   tmpFiles, disk, loc, merged, nRowCalls, sError, rw>>

\* a SetAttr overload as the driver of a build calls it: before Done, a bounded number
\* of times
BuilderSetAttr(iAttr, pairs) ==
    pc = "collect" /\ nAttrCalls < MaxAttrCalls /\ BuilderSetAttrCall(iAttr, pairs)

KindAt(iAttr) == IF HasWriter(iAttr) THEN m_dRawWriter[iAttr + 1].kind ELSE "NULL"

SetAttrScalar(iAttr, tAttr) ==
    BuilderSetAttr(iAttr, RawSetAttrScalar(KindAt(iAttr), m_tRowID, tAttr))

SetAttrBytes(iAttr, pData) ==
    BuilderSetAttr(iAttr, RawSetAttrBytes(KindAt(iAttr), m_tRowID, pData))

SetAttrArray(iAttr, pData) ==
    BuilderSetAttr(iAttr, RawSetAttrArray(KindAt(iAttr), m_tRowID, pData))


(***************************************************************************)
(* Block encoder: EncodeRowsBlock, EncodeBlock, RowWriter_t                *)
(***************************************************************************)
\* ComputeDeltas ( pData, iLength, true ): every element but the first becomes the
\* difference to its predecessor (in the element type's modular arithmetic)
ComputeDeltas(dData) ==
    [i \in 1..Len(dData) |-> IF i = 1 THEN dData[1] ELSE dData[i] - dData[i - 1]]

\* bits of the index value type DST_VALUE of a collector kind
DstBits(kind) == IF kind \in {"U32", "F32"} THEN 32 ELSE 64

\* IntCodec_i::Encode: an opaque buffer of 32-bit words that holds the source span
CodecEncode(dSrc, iBits) == [words |-> Len(dSrc) * (iBits \div 32), src |-> dSrc]

\* bytes WriteVectorLen32 writes for a buffer of 32-bit words
VectorLen32Bytes(dBuf) == CalcPackedLen(dBuf.words, 32) + SizeofU32 * dBuf.words

\* FastPForLib::needPaddingTo128Bits of &dSrcRows[iOff], the vector's storage
\* starting align 32-bit words after a 16-byte boundary
NeedPadding(align, iOff) == (align + iOff) % 4 # 0

\* EncodeRowsBlock: the rows vector as it leaves it, and the row-block appended to tWriter
EncodeRowsBlock(dSrcRows, iOff, iCount, align) ==
    LET bMove == NeedPadding(align, iOff)
        dMoved == IF bMove
                  THEN SubSeq(dSrcRows, iOff + 1, iOff + iCount)
                       \o SubSeq(dSrcRows, iCount + 1, Len(dSrcRows))
                  ELSE dSrcRows
        iAt == IF bMove THEN 0 ELSE iOff
        dRows == SubSeq(dMoved, iAt + 1, iAt + iCount)
        tMin == dRows[1]
        tMax == dRows[iCount]
        dBufRows == CodecEncode(ComputeDeltas(dRows), 32)
    IN  [rows |-> SubSeq(dMoved, 1, iAt) \o ComputeDeltas(dRows)
                  \o SubSeq(dMoved, iAt + iCount + 1, Len(dMoved)),
         block |-> [kind |-> "rows", off |-> 0, tMin |-> tMin, tDelta |-> tMax - tMin, dBuf |-> dBufRows,
                    len |-> CalcPackedLen(tMin, 32) + CalcPackedLen(tMax - tMin, 32)
                            + VectorLen32Bytes(dBufRows)]]

\* MemWriter_c over m_dRowsPacked: append one item at the current position
PackedAppend(st, item) ==
    [st EXCEPT !.m_dRowsPacked = Append(@, [item EXCEPT !.off = st.packedPos]),
               !.packedPos = @ + item.len]

\* the loop over the sub-blocks of a ROW_BLOCKS_LIST group
RECURSIVE EncodeRowsList(_, _, _, _, _, _)
EncodeRowsList(st, uSrcRowsStart, uSrcRowsCount, iBlock, iBlocks, align) ==
    IF iBlock >= iBlocks THEN st
    ELSE LET uSrcStart == uSrcRowsStart + iBlock * VALUES_PER_BLOCK
             uSrcCount == IF iBlock = iBlocks - 1
                          THEN uSrcRowsCount - iBlock * VALUES_PER_BLOCK
                          ELSE VALUES_PER_BLOCK
             e == EncodeRowsBlock(st.m_dRows, uSrcStart, uSrcCount, align)
         IN  EncodeRowsList(PackedAppend([st EXCEPT !.m_dRows = e.rows], e.block),
                            uSrcRowsStart, uSrcRowsCount, iBlock + 1, iBlocks, align)

\* a pass that leaves the row_start delta flag set when it meets a group of one row-id
FlushItemKeepDelta(st, iItem, align) ==
    LET uSrcRowsStart == st.m_dRowStart[iItem]
        uSrcRowsCount == IF iItem + 1 <= Len(st.m_dRowStart)
                         THEN st.m_dRowStart[iItem + 1] - uSrcRowsStart
                         ELSE Len(st.m_dRows) - uSrcRowsStart
    IN  IF uSrcRowsCount = 1
        THEN [st EXCEPT !.m_dTypes[iItem] = "ROW",
                        !.m_dRowStart[iItem] = st.m_dRows[uSrcRowsStart + 1]]
        ELSE IF uSrcRowsCount <= VALUES_PER_BLOCK
        THEN LET e == EncodeRowsBlock(st.m_dRows, uSrcRowsStart, uSrcRowsCount, align)
             IN  PackedAppend([st EXCEPT !.m_dTypes[iItem] = "ROW_BLOCK",
                                         !.m_dRowStart[iItem] = st.packedPos,
                                         !.m_dRows = e.rows],
                              e.block)
        ELSE LET iBlocks == (uSrcRowsCount + VALUES_PER_BLOCK - 1) \div VALUES_PER_BLOCK
                 head == [kind |-> "count", iBlocks |-> iBlocks, off |-> 0,
                          len |-> CalcPackedLen(iBlocks, 32)]
             IN  EncodeRowsList(PackedAppend([st EXCEPT !.m_dTypes[iItem] = "ROW_BLOCKS_LIST",
                                                        !.m_dRowStart[iItem] = st.packedPos],
                                             head),
                                uSrcRowsStart, uSrcRowsCount, 0, iBlocks, align)

\* a pass that packs every group of more than one row-id as a single row-block
FlushItemOneBlock(st, iItem, align) ==
    LET uSrcRowsStart == st.m_dRowStart[iItem]
        uSrcRowsCount == IF iItem + 1 <= Len(st.m_dRowStart)
                         THEN st.m_dRowStart[iItem + 1] - uSrcRowsStart
                         ELSE Len(st.m_dRows) - uSrcRowsStart
    IN  IF uSrcRowsCount = 1
        THEN [st EXCEPT !.m_dTypes[iItem] = "ROW",
                        !.m_dRowStart[iItem] = st.m_dRows[uSrcRowsStart + 1],
                        !.bLenDelta = FALSE]
        ELSE LET e == EncodeRowsBlock(st.m_dRows, uSrcRowsStart, uSrcRowsCount, align)
             IN  PackedAppend([st EXCEPT !.m_dTypes[iItem] = "ROW_BLOCK",
                                         !.m_dRowStart[iItem] = st.packedPos,
                                         !.m_dRows = e.rows],
                              e.block)

\* one pass of the loop of FlushBlock over the value groups (iItem counts from 1)
FlushItem(st, iItem, align) ==
    LET uSrcRowsStart == st.m_dRowStart[iItem]
        uSrcRowsCount == IF iItem + 1 <= Len(st.m_dRowStart)
                         THEN st.m_dRowStart[iItem + 1] - uSrcRowsStart
                         ELSE Len(st.m_dRows) - uSrcRowsStart
    IN  IF uSrcRowsCount = 1
        THEN [st EXCEPT !.m_dTypes[iItem] = "ROW",
                        !.m_dRowStart[iItem] = st.m_dRows[uSrcRowsStart + 1],
                        !.bLenDelta = FALSE]
        ELSE IF uSrcRowsCount <= VALUES_PER_BLOCK
        THEN LET e == EncodeRowsBlock(st.m_dRows, uSrcRowsStart, uSrcRowsCount, align)
             IN  PackedAppend([st EXCEPT !.m_dTypes[iItem] = "ROW_BLOCK",
                                         !.m_dRowStart[iItem] = st.packedPos,
                                         !.m_dRows = e.rows],
                              e.block)
        ELSE LET iBlocks == (uSrcRowsCount + VALUES_PER_BLOCK - 1) \div VALUES_PER_BLOCK
                 head == [kind |-> "count", iBlocks |-> iBlocks, off |-> 0,
                          len |-> CalcPackedLen(iBlocks, 32)]
             IN  EncodeRowsList(PackedAppend([st EXCEPT !.m_dTypes[iItem] = "ROW_BLOCKS_LIST",
                                                        !.m_dRowStart[iItem] = st.packedPos],
                                             head),
                                uSrcRowsStart, uSrcRowsCount, 0, iBlocks, align)

\* the passes lo..hi of that loop, in order
RECURSIVE FlushItems(_, _, _, _)
FlushItems(st, lo, hi, align) ==
    IF lo > hi THEN st
    ELSE IF lo = hi THEN FlushItem(st, lo, align)
    ELSE LET mid == (lo + hi) \div 2
             half == FlushItems(st, lo, mid, align)
         IN  IF half.packedPos >= 0 THEN FlushItems(half, mid + 1, hi, align) ELSE half

NewRowWriter == [m_dValues |-> << >>, m_dRowStart |-> << >>, m_dRows |-> << >>, m_tLastValue |-> 0]

\* what a RowWriter_t writes to: the output file, the block-offsets file, the PGM-values file
NewSink(iDstPos) == [dst |-> << >>, dstPos |-> iDstPos, blocksOff |-> << >>, pgmVals |-> << >>]

\* a block whose rows_packed goes out through WriteVectorLen32: a packed count first
EncodedBlockLen32(st, w, off, iBits) ==
    LET dValues == CodecEncode(ComputeDeltas(w.m_dValues), iBits)
        dTypes == CodecEncode(st.m_dTypes, 32)
        dRowStart == CodecEncode(IF st.bLenDelta THEN ComputeDeltas(st.m_dRowStart)
                                 ELSE st.m_dRowStart, 32)
    IN  [kind |-> "block", off |-> off,
         len |-> VectorLen32Bytes(dValues) + VectorLen32Bytes(dTypes) + 1
                 + VectorLen32Bytes(dRowStart) + CalcPackedLen(st.packedPos, 32) + st.packedPos,
         values |-> dValues, types |-> dTypes, bLenDelta |-> st.bLenDelta,
         rowStart |-> dRowStart, rowsPacked |-> st.m_dRowsPacked]

\* the block FlushBlock writes to the output at position off
EncodedBlock(st, w, off, iBits) ==
    LET dValues == CodecEncode(ComputeDeltas(w.m_dValues), iBits)
        dTypes == CodecEncode(st.m_dTypes, 32)
        dRowStart == CodecEncode(IF st.bLenDelta THEN ComputeDeltas(st.m_dRowStart)
                                 ELSE st.m_dRowStart, 32)
    IN  [kind |-> "block", off |-> off,
         len |-> VectorLen32Bytes(dValues) + VectorLen32Bytes(dTypes) + 1
                 + VectorLen32Bytes(dRowStart) + st.packedPos,
         values |-> dValues, types |-> dTypes, bLenDelta |-> st.bLenDelta,
         rowStart |-> dRowStart, rowsPacked |-> st.m_dRowsPacked]

\* a FlushBlock that records the block's offset once the block is written
FlushBlockOffsetAfter(ws, iBits, align) ==
    LET w == ws[1]
        o == ws[2]
        iValues == Len(w.m_dValues)
        st == FlushItems([m_dTypes |-> [i \in 1..iValues |-> "ROW"], m_dRowStart |-> w.m_dRowStart,
                          m_dRows |-> w.m_dRows, m_dRowsPacked |-> << >>, packedPos |-> 0,
                          bLenDelta |-> TRUE],
                         1, iValues, align)
        blk == EncodedBlock(st, w, o.dstPos, iBits)
    IN  IF iValues = 0 THEN ws
        ELSE << [w EXCEPT !.m_dValues = << >>, !.m_dRowStart = << >>, !.m_dRows = << >>],
                [o EXCEPT !.blocksOff = Append(@, o.dstPos + blk.len),
                          !.pgmVals = @ \o w.m_dValues,
                          !.dst = Append(@, blk),
                          !.dstPos = @ + blk.len] >>

\* a FlushBlock that hands the PGM builder the last value of the block only
FlushBlockPGMLast(ws, iBits, align) ==
    LET w == ws[1]
        o == ws[2]
        iValues == Len(w.m_dValues)
        st == FlushItems([m_dTypes |-> [i \in 1..iValues |-> "ROW"], m_dRowStart |-> w.m_dRowStart,
                          m_dRows |-> w.m_dRows, m_dRowsPacked |-> << >>, packedPos |-> 0,
                          bLenDelta |-> TRUE],
                         1, iValues, align)
        blk == EncodedBlock(st, w, o.dstPos, iBits)
    IN  IF iValues = 0 THEN ws
        ELSE << [w EXCEPT !.m_dValues = << >>, !.m_dRowStart = << >>, !.m_dRows = << >>],
                [o EXCEPT !.blocksOff = Append(@, o.dstPos),
                          !.pgmVals = Append(@, w.m_dValues[iValues]),
                          !.dst = Append(@, blk),
                          !.dstPos = @ + blk.len] >>

\* a FlushBlock without the early return for a row writer that holds no value
FlushBlockAlways(ws, iBits, align) ==
    LET w == ws[1]
        o == ws[2]
        iValues == Len(w.m_dValues)
        st == FlushItems([m_dTypes |-> [i \in 1..iValues |-> "ROW"], m_dRowStart |-> w.m_dRowStart,
                          m_dRows |-> w.m_dRows, m_dRowsPacked |-> << >>, packedPos |-> 0,
                          bLenDelta |-> TRUE],
                         1, iValues, align)
        blk == EncodedBlock(st, w, o.dstPos, iBits)
    IN  << [w EXCEPT !.m_dValues = << >>, !.m_dRowStart = << >>, !.m_dRows = << >>],
           [o EXCEPT !.blocksOff = Append(@, o.dstPos),
                     !.pgmVals = @ \o w.m_dValues,
                     !.dst = Append(@, blk),
                     !.dstPos = @ + blk.len] >>

\* RowWriter_t::FlushBlock; ws = <<row writer, sink>>
FlushBlock(ws, iBits, align) ==
    LET w == ws[1]
        o == ws[2]
        iValues == Len(w.m_dValues)
        st == FlushItems([m_dTypes |-> [i \in 1..iValues |-> "ROW"], m_dRowStart |-> w.m_dRowStart,
                          m_dRows |-> w.m_dRows, m_dRowsPacked |-> << >>, packedPos |-> 0,
                          bLenDelta |-> TRUE],
                         1, iValues, align)
        blk == EncodedBlock(st, w, o.dstPos, iBits)
    IN  IF iValues = 0 THEN ws
        ELSE << [w EXCEPT !.m_dValues = << >>, !.m_dRowStart = << >>, !.m_dRows = << >>],
                [o EXCEPT !.blocksOff = Append(@, o.dstPos),
                          !.pgmVals = @ \o w.m_dValues,
                          !.dst = Append(@, blk),
                          !.dstPos = @ + blk.len] >>

\* a FlushValue that never flushes
FlushValueNever(ws, iBits, align) == ws

\* RowWriter_t::FlushValue
FlushValue(ws, iBits, align) ==
    IF Len(ws[1].m_dValues) < VALUES_PER_BLOCK THEN ws ELSE FlushBlock(ws, iBits, align)

\* RowWriter_t::AddValue
AddValue(ws, tBin) ==
    << [ws[1] EXCEPT !.m_dRowStart = Append(@, Len(ws[1].m_dRows)),
                     !.m_dValues = Append(@, tBin.m_tValue),
                     !.m_dRows = Append(@, tBin.m_tRowid),
                     !.m_tLastValue = tBin.m_tValue],
       ws[2] >>

\* a NextValue that opens a group for every pair
NextValueNoGroup(ws, tBin, iBits, align) == AddValue(FlushValue(ws, iBits, align), tBin)

\* RowWriter_t::NextValue (not FLOAT_VALUE)
NextValue(ws, tBin, iBits, align) ==
    IF ws[1].m_tLastValue = tBin.m_tValue
    THEN << [ws[1] EXCEPT !.m_dRows = Append(@, tBin.m_tRowid)], ws[2] >>
    ELSE AddValue(FlushValue(ws, iBits, align), tBin)

(***************************************************************************)
(* Merger: SIWriter_T, BinValue_T, PQGreater                               *)
(***************************************************************************)
\* RawWriter_T::GetWriter and SIWriter_T::Setup
GetWriter(w) ==
    [kind |-> w.kind, m_sSrcName |-> w.iAttr, m_iFileSize |-> w.m_iFileSize,
     m_dOffset |-> w.m_dOffset, m_dPGM |-> [n |-> 0]]

\* BinValue_T::Read
BinRead(tBin, data, iItemSize) ==
    IF tBin.pos >= tBin.m_iBinEnd
    THEN [ok |-> FALSE, bin |-> tBin]
    ELSE LET tRaw == data[tBin.pos \div iItemSize + 1]
         IN  [ok |-> TRUE,
              bin |-> [tBin EXCEPT !.m_tValue = tRaw.m_tValue, !.m_tRowid = tRaw.m_tRowid,
                                   !.pos = @ + iItemSize]]

\* operator> of the collector's VALUE type
ValueGreater(kind, a, b) == ValueLess(kind, b, a)

\* a priority-queue order without the row-id tie-break
PQGreaterNoRowid(kind, tA, tB) == ValueGreater(kind, tA.m_tValue, tB.m_tValue)

PQGreater(kind, tA, tB) ==
    IF tA.m_tValue = tB.m_tValue
    THEN tA.m_tRowid > tB.m_tRowid
    ELSE ValueGreater(kind, tA.m_tValue, tB.m_tValue)

\* the index in dBins of std::priority_queue::top()
PQTop(kind, dBins) ==
    CHOOSE i \in 1..Len(dBins) : \A j \in 1..Len(dBins) : ~PQGreater(kind, dBins[i], dBins[j])

\* Convert ( BinValue_T<SRC_VALUE> ): the bit pattern is kept
Convert(kind, tSrc) == RawValue_T(tSrc.m_tValue, tSrc.m_tRowid)

\* the readers opened over the runs, each with its head pair read
InitBins(wr, data) ==
    [iReader \in 1..Len(wr.m_dOffset) |->
        BinRead([m_tValue |-> 0, m_tRowid |-> 0, pos |-> wr.m_dOffset[iReader],
                 m_iBinEnd |-> IF iReader < Len(wr.m_dOffset)
                               THEN wr.m_dOffset[iReader + 1]
                               ELSE wr.m_iFileSize],
                data, GetItemSize(wr.kind)).bin]

\* pop the top, hand it to the row writer (AddValue for the initial fill, NextValue in
\* the loop), read the run's next pair and push it back
MergeStep(st, wr, data, bInitial, align) ==
    IF Len(st.dBins) = 0 THEN st
    ELSE LET i == PQTop(wr.kind, st.dBins)
             tBin == st.dBins[i]
             dRest == SubSeq(st.dBins, 1, i - 1) \o SubSeq(st.dBins, i + 1, Len(st.dBins))
             tDst == Convert(wr.kind, tBin)
             r == BinRead(tBin, data, GetItemSize(wr.kind))
         IN  [dBins |-> IF r.ok THEN Append(dRest, r.bin) ELSE dRest,
              ws |-> IF bInitial THEN AddValue(st.ws, tDst)
                     ELSE NextValue(st.ws, tDst, DstBits(wr.kind), align),
              fwd |-> Append(st.fwd, tDst)]

\* n passes of while ( !dBins.empty() ); the two halves of the passes run one after the
\* other and the pairs they forward are joined
RECURSIVE MergeLoop(_, _, _, _, _)
MergeLoop(st, wr, data, n, align) ==
    IF n <= 0 THEN st
    ELSE IF n = 1 THEN MergeStep(st, wr, data, FALSE, align)
    ELSE LET half == MergeLoop([st EXCEPT !.fwd = << >>], wr, data, n \div 2, align)
             rest == MergeLoop([half EXCEPT !.fwd = << >>], wr, data, n - n \div 2, align)
         IN  IF Len(half.dBins) >= 0
             THEN [rest EXCEPT !.fwd = st.fwd \o half.fwd \o rest.fwd]
             ELSE half

\* SIWriter_T::Process from the priority queue to tWriter.Done
Merge(wr, data, iDstPos, align) ==
    LET st0 == [dBins |-> InitBins(wr, data), ws |-> <<NewRowWriter, NewSink(iDstPos)>>,
                fwd |-> << >>]
        st1 == MergeStep(st0, wr, data, TRUE, align)
        st2 == MergeLoop(st1, wr, data, Len(data), align)
    IN  [st2 EXCEPT !.ws = FlushBlock(@, DstBits(wr.kind), align)]

\* MappedBuffer_T over the PGM-values file: the values written, none for an empty file
MappedBuffer(file) == file.data

\* PGM_T over the mapped values, saved to m_dPGM: an opaque blob
PGM_T(dValues) == [n |-> Len(dValues)]

\* bytes of a saved PGM blob
PGMBytes(tPGM) == 16 + tPGM.n

(***************************************************************************)
(* Builder_c::Done and Builder_c::WriteMeta                                *)
(***************************************************************************)
\* a position that is the start of the last record written, not its end
FilePosLastStart(file) ==
    IF Len(file.data) = 0 THEN 0 ELSE file.data[Len(file.data)].off

\* FileWriter_c::GetPos of a writer appending to a file of records
FilePos(file) ==
    IF Len(file.data) = 0 THEN 0
    ELSE file.data[Len(file.data)].off + file.data[Len(file.data)].len

\* Write_uint32 ( LIB_VERSION ); Write_uint64 ( 0 )
Header ==
    << [kind |-> "version", off |-> 0, len |-> SizeofU32],
       [kind |-> "meta_offset", off |-> SizeofU32, len |-> SizeofU64, v |-> 0] >>

\* the loop calling RawWriter_T::Done; slot s gives <<collector, file>>
CollectorsDone ==
    [s \in 1..Len(m_dRawWriter) |->
        IF IsNull(m_dRawWriter[s]) THEN <<m_dRawWriter[s], NoFile>>
        ELSE RawDone(m_dRawWriter[s], tmpFiles[s - 1])]

\* m_dCidWriter after the loop calling GetWriter
CidWriters(writers) ==
    LET live == SelectSeq(writers, LAMBDA w : ~IsNull(w))
    IN  [i \in 1..Len(live) |-> GetWriter(live[i])]

\* writers that leave their files
UnlinkedNot(d, names) == d

\* the destructors of tTmpBlocks, tTmpPgm (Done) and tTmpValsPGM (Process) unlink
\* their files: FileWriter_c::m_bTemporary
Unlinked(d, names) == [f \in FileNames |-> IF f \in names THEN NoFile ELSE d[f]]

TmpNames == {"tmp.meta", "tmp.pgm", "tmp.pgmvalues"}

\* the files whose Open can fail in Done before the loop over m_dCidWriter
DoneOpens == {"dst", "tmp.meta", "tmp.pgm"}

\* a Done that keeps its collectors
DoneBeginKeepsCollectors ==
    /\ pc = "collect"
    /\ LET dDone == CollectorsDone
       IN  /\ m_dCidWriter' = CidWriters(WritersOf(dDone))
           /\ m_dRawWriter' = WritersOf(dDone)
           /\ tmpFiles' = FilesOf(dDone)
    /\ sError' = ""
    /\ pc' = "process"
    /\ disk' = [disk EXCEPT !["dst"] = [exists |-> TRUE, data |-> Header],
                            !["tmp.meta"] = EmptyFile,
                            !["tmp.pgm"] = EmptyFile]
    /\ loc' = [iWriter |-> 0,
               dBlocksOffStart |-> [i \in 1..Len(m_dCidWriter') |-> 0],
               dBlocksCount |-> [i \in 1..Len(m_dCidWriter') |-> 0],
               uMetaOff |-> 0]
    /\ UNCHANGED <<dSrcAttrs, iMemoryLimit, m_tRowID, m_iMaxRows, m_dAttrs, fed, merged, nRowCalls,
                   nAttrCalls, rw>>

\* Done up to the loop over m_dCidWriter; sFailed names the file whose Open fails
DoneBegin ==
    /\ pc = "collect"
    /\ LET dDone == CollectorsDone
       IN  /\ m_dCidWriter' = CidWriters(WritersOf(dDone))
           /\ tmpFiles' = FilesOf(dDone)
    /\ m_dRawWriter' = << >>
    /\ \E sFailed \in {""} \cup DoneOpens :
        /\ sError' = sFailed
        /\ pc' = IF sFailed = "" THEN "process" ELSE "failed"
        /\ disk' = CASE sFailed = "dst" -> disk
                     [] sFailed \in {"tmp.meta", "tmp.pgm"} -> [disk EXCEPT !["dst"] = EmptyFile]
                     [] OTHER -> [disk EXCEPT !["dst"] = [exists |-> TRUE, data |-> Header],
                                              !["tmp.meta"] = EmptyFile,
                                              !["tmp.pgm"] = EmptyFile]
    /\ loc' = [iWriter |-> 0,
               dBlocksOffStart |-> [i \in 1..Len(m_dCidWriter') |-> 0],
               dBlocksCount |-> [i \in 1..Len(m_dCidWriter') |-> 0],
               uMetaOff |-> 0]
    /\ UNCHANGED <<dSrcAttrs, iMemoryLimit, m_tRowID, m_iMaxRows, m_dAttrs, fed, merged, nRowCalls,
                   nAttrCalls, rw>>

\* a Process that leaves the collector's file
UnlinkSrcNot(files, iSrc) == files

\* ::unlink ( m_sSrcName.c_str() )
UnlinkSrc(files, iSrc) == [files EXCEPT ![iSrc] = NoFile]

\* alignments of the row writer's m_dRows storage
Alignments == {0, 2}

\* the loop body of Done up to the end of the merge in SIWriter_T::Process:
\* the PGM-values file is opened, the runs are merged and encoded, the source is unlinked
ProcessMerge(sFailed, align) ==
    /\ pc = "process"
    /\ LET wr == m_dCidWriter[loc.iWriter + 1]
           src == tmpFiles[wr.m_sSrcName]
           r == Merge(wr, src.data, FilePos(disk["dst"]), align)
           o == r.ws[2]
       IN  /\ sFailed = "src" => Len(wr.m_dOffset) > 0
           /\ loc' = [loc EXCEPT !.dBlocksOffStart[loc.iWriter + 1] =
                                     SizeofU64 * Len(disk["tmp.meta"].data)]
           /\ IF sFailed = ""
              THEN /\ disk' = [disk EXCEPT !["dst"].data = @ \o o.dst,
                                           !["tmp.meta"].data = @ \o o.blocksOff,
                                           !["tmp.pgmvalues"] =
                                               [exists |-> TRUE, data |-> o.pgmVals]]
                   /\ tmpFiles' = UnlinkSrc(tmpFiles, wr.m_sSrcName)
                   /\ merged' = Append(merged, [nRuns |-> Len(wr.m_dOffset), fwd |-> r.fwd])
                   /\ pc' = "pgm"
              ELSE /\ disk' = Unlinked(disk, TmpNames)
                   /\ pc' = "failed"
                   /\ UNCHANGED <<tmpFiles, merged>>
    /\ sError' = sFailed
    /\ UNCHANGED <<dSrcAttrs, iMemoryLimit, m_tRowID, m_iMaxRows, m_dRawWriter, m_dCidWriter, m_dAttrs, fed,
                   nRowCalls, nAttrCalls, rw>>

\* the rest of SIWriter_T::Process (map, PGM build, return) and of the loop body of Done
ProcessPGM(sFailed) ==
    /\ pc = "pgm"
    /\ sError' = sFailed
    /\ IF sFailed = ""
       THEN /\ disk' = [Unlinked(disk, {"tmp.pgmvalues"}) EXCEPT
                            !["tmp.pgm"].data =
                                Append(@, PGM_T(MappedBuffer(disk["tmp.pgmvalues"])))]
            /\ m_dCidWriter' = [m_dCidWriter EXCEPT ![loc.iWriter + 1] = NULL]
            /\ loc' = [loc EXCEPT !.iWriter = @ + 1]
            /\ pc' = IF loc.iWriter + 1 < Len(m_dCidWriter) THEN "process" ELSE "finish"
       ELSE /\ disk' = Unlinked(disk, TmpNames)
            /\ pc' = "failed"
            /\ UNCHANGED <<m_dCidWriter, loc>>
    /\ UNCHANGED <<dSrcAttrs, iMemoryLimit, m_tRowID, m_iMaxRows, m_dRawWriter, m_dAttrs, tmpFiles, fed,
                   merged, nRowCalls, nAttrCalls, rw>>

\* block counts without the division by sizeof ( uint64_t )
BlocksCountBytes(dBlocksOffStart, iLastBlock) ==
    [i \in 1..Len(dBlocksOffStart) |->
        IF i < Len(dBlocksOffStart)
        THEN dBlocksOffStart[i + 1] - dBlocksOffStart[i]
        ELSE iLastBlock - dBlocksOffStart[i]]

\* dBlocksCount from the starts and the final position of the block-offsets file
BlocksCount(dBlocksOffStart, iLastBlock) ==
    [i \in 1..Len(dBlocksOffStart) |->
        IF i < Len(dBlocksOffStart)
        THEN (dBlocksOffStart[i + 1] - dBlocksOffStart[i]) \div SizeofU64
        ELSE (iLastBlock - dBlocksOffStart[i]) \div SizeofU64]

\* the end of Done and WriteMeta up to tDstFile.Seek ( uMetaOff ): the header is patched
DoneFinish(sFailed) ==
    /\ pc = "finish"
    /\ sError' = sFailed
    /\ loc' = [loc EXCEPT
                  !.dBlocksCount = BlocksCount(loc.dBlocksOffStart,
                                               SizeofU64 * Len(disk["tmp.meta"].data)),
                  !.dBlocksOffStart = ComputeDeltas(@),
                  !.uMetaOff = FilePos(disk["dst"])]
    /\ IF sFailed = ""
       THEN /\ disk' = [disk EXCEPT !["dst"].data[2].v = FilePos(disk["dst"])]
            /\ pc' = "wm_trailer"
       ELSE /\ disk' = Unlinked(disk, TmpNames)
            /\ pc' = "failed"
    /\ UNCHANGED <<dSrcAttrs, iMemoryLimit, m_tRowID, m_iMaxRows, m_dRawWriter, m_dCidWriter, m_dAttrs,
                   tmpFiles, fed, merged, nRowCalls, nAttrCalls, rw>>

\* bytes of Write_string for a string of n bytes
StringBytes(n) == CalcPackedLen(n, 32) + n

RECURSIVE PackedBytes(_, _)
PackedBytes(dData, i) ==
    IF i > Len(dData) THEN 0 ELSE CalcPackedLen(dData[i], 64) + PackedBytes(dData, i + 1)

\* bytes of WriteVectorPacked
VectorPackedBytes(dData) == CalcPackedLen(Len(dData), 32) + PackedBytes(dData, 1)

RECURSIVE SchemaBytes(_, _)
SchemaBytes(dAttrs, i) ==
    IF i > Len(dAttrs) THEN 0
    ELSE StringBytes(1) + CalcPackedLen(dAttrs[i].m_iSrcAttr, 32)
         + CalcPackedLen(dAttrs[i].m_iAttr, 32) + 1 + SchemaBytes(dAttrs, i + 1)

\* the meta block WriteMeta writes at uMetaOff
MetaBlock ==
    [kind |-> "meta", off |-> loc.uMetaOff,
     len |-> SizeofU64 + SizeofU32 + SizeofU32 * ((Len(m_dAttrs) + 31) \div 32)
             + StringBytes(15) + StringBytes(11) + SizeofU32 + SizeofU32
             + SchemaBytes(m_dAttrs, 1) + VectorPackedBytes(loc.dBlocksOffStart)
             + VectorPackedBytes(loc.dBlocksCount),
     uNextMeta |-> 0,
     attr_count |-> Len(m_dAttrs),
     values_per_block |-> VALUES_PER_BLOCK,
     schema |-> m_dAttrs,
     dBlocksOffStart |-> loc.dBlocksOffStart,
     dBlocksCount |-> loc.dBlocksCount]

\* WriteMeta from the first write after Seek ( uMetaOff ) to the close of tDstFile
WriteMetaTrailer ==
    /\ pc = "wm_trailer"
    /\ disk' = [disk EXCEPT !["dst"].data = Append(@, MetaBlock)]
    /\ pc' = "wm_copy_pgm"
    /\ UNCHANGED <<dSrcAttrs, iMemoryLimit, m_tRowID, m_iMaxRows, m_dRawWriter, m_dCidWriter, m_dAttrs,
                   tmpFiles, loc, fed, merged, nRowCalls, nAttrCalls, sError, rw>>

RECURSIVE PGMFileBytes(_, _)
PGMFileBytes(dBlobs, i) ==
    IF i > Len(dBlobs) THEN 0
    ELSE CalcPackedLen(PGMBytes(dBlobs[i]), 64) + PGMBytes(dBlobs[i]) + PGMFileBytes(dBlobs, i + 1)

\* CopySingleFile ( sPgmName, m_sFile )
WriteMetaCopyPgm(sFailed) ==
    /\ pc = "wm_copy_pgm"
    /\ sError' = sFailed
    /\ IF sFailed = ""
       THEN /\ disk' = [disk EXCEPT !["dst"].data =
                           Append(@, [kind |-> "pgms", off |-> FilePos(disk["dst"]),
                                      len |-> PGMFileBytes(disk["tmp.pgm"].data, 1),
                                      blobs |-> disk["tmp.pgm"].data])]
            /\ pc' = "wm_copy_blocks"
       ELSE /\ disk' = Unlinked(disk, TmpNames)
            /\ pc' = "failed"
    /\ UNCHANGED <<dSrcAttrs, iMemoryLimit, m_tRowID, m_iMaxRows, m_dRawWriter, m_dCidWriter, m_dAttrs,
                   tmpFiles, loc, fed, merged, nRowCalls, nAttrCalls, rw>>

\* CopySingleFile ( sBlocksName, m_sFile ), the return of WriteMeta and of Done
WriteMetaCopyBlocks(sFailed) ==
    /\ pc = "wm_copy_blocks"
    /\ sError' = sFailed
    /\ IF sFailed = ""
       THEN /\ disk' = Unlinked([disk EXCEPT !["dst"].data =
                           Append(@, [kind |-> "blockoffs", off |-> FilePos(disk["dst"]),
                                      len |-> SizeofU64 * Len(disk["tmp.meta"].data),
                                      offs |-> disk["tmp.meta"].data])], TmpNames)
            /\ pc' = "done"
       ELSE /\ disk' = Unlinked(disk, TmpNames)
            /\ pc' = "failed"
    /\ UNCHANGED <<dSrcAttrs, iMemoryLimit, m_tRowID, m_iMaxRows, m_dRawWriter, m_dCidWriter, m_dAttrs,
                   tmpFiles, loc, fed, merged, nRowCalls, nAttrCalls, rw>>

Next ==
    \/ \E tRowID \in RowIDs : SetRowID(tRowID)
    \/ \E iAttr \in AttrIndexes, tAttr \in ScalarInputs : SetAttrScalar(iAttr, tAttr)
    \/ \E iAttr \in AttrIndexes, pData \in Strings : SetAttrBytes(iAttr, pData)
    \/ \E iAttr \in AttrIndexes, pData \in Arrays : SetAttrArray(iAttr, pData)
    \/ DoneBegin
    \/ \E sFailed \in {"", "tmp.pgmvalues", "src"}, align \in Alignments : ProcessMerge(sFailed, align)
    \/ \E sFailed \in {"", "map"} : ProcessPGM(sFailed)
    \/ \E sFailed \in {"", "dst"} : DoneFinish(sFailed)
    \/ WriteMetaTrailer
    \/ \E sFailed \in {"", "tmp.pgm"} : WriteMetaCopyPgm(sFailed)
    \/ \E sFailed \in {"", "tmp.meta"} : WriteMetaCopyBlocks(sFailed)

Spec == Init /\ [][Next]_vars

(***************************************************************************)
(* The block encoder on its own: a RowWriter_t is fed value groups of chosen *)
(* sizes through AddValue / NextValue and then flushed                     *)
(***************************************************************************)
\* the row-ids of the group staged as the iGroup-th, uCount of them, ascending
GroupRows(iGroup, uCount) == [j \in 1..uCount |-> iGroup + j]

\* NextValue for the row-ids lo..hi of a group, in order
RECURSIVE FeedRows(_, _, _, _, _, _)
FeedRows(ws, tValue, dRows, lo, hi, align) ==
    IF lo > hi THEN ws
    ELSE IF lo = hi THEN NextValue(ws, RawValue_T(tValue, dRows[lo]), 32, align)
    ELSE LET mid == (lo + hi) \div 2
             half == FeedRows(ws, tValue, dRows, lo, mid, align)
         IN  IF Len(half[1].m_dRows) >= 0 THEN FeedRows(half, tValue, dRows, mid + 1, hi, align)
             ELSE half

InitFlush ==
    /\ pc = "rw_fill"
    /\ rw = [ws |-> <<NewRowWriter, NewSink(SizeofU32 + SizeofU64)>>, counts |-> << >>]
    /\ dSrcAttrs = << >>
    /\ iMemoryLimit = 0
    /\ m_tRowID = 0
    /\ m_iMaxRows = MinMaxRows
    /\ m_dRawWriter = << >>
    /\ m_dCidWriter = << >>
    /\ m_dAttrs = << >>
    /\ tmpFiles = [a \in SrcIndexes |-> NoFile]
    /\ disk = [f \in FileNames |-> NoFile]
    /\ loc = NoLoc
    /\ fed = << >>
    /\ merged = << >>
    /\ nRowCalls = 0
    /\ nAttrCalls = 0
    /\ sError = ""

\* the merge loop hands the row writer the next value with uCount row-ids: AddValue for
\* the first pair of all, NextValue for every other pair
RwAddGroup(uCount) ==
    /\ pc = "rw_fill"
    /\ Len(rw.counts) < MaxGroups
    /\ LET iGroup == Len(rw.counts) + 1
           dRows == GroupRows(iGroup, uCount)
           first == IF iGroup = 1
                    THEN AddValue(rw.ws, RawValue_T(iGroup, dRows[1]))
                    ELSE NextValue(rw.ws, RawValue_T(iGroup, dRows[1]), 32, 0)
       IN  rw' = [ws |-> FeedRows(first, iGroup, dRows, 2, uCount, 0),
                  counts |-> Append(rw.counts, uCount)]
    /\ UNCHANGED <<pc, dSrcAttrs, iMemoryLimit, m_tRowID, m_iMaxRows, m_dRawWriter, m_dCidWriter, m_dAttrs,
                   tmpFiles, disk, loc, fed, merged, nRowCalls, nAttrCalls, sError>>

\* RowWriter_t::Done: FlushBlock
RwDone(align) ==
    /\ pc = "rw_fill"
    /\ Len(rw.counts) > 0
    /\ rw' = [rw EXCEPT !.ws = FlushBlock(rw.ws, 32, align)]
    /\ pc' = "rw_flushed"
    /\ UNCHANGED <<dSrcAttrs, iMemoryLimit, m_tRowID, m_iMaxRows, m_dRawWriter, m_dCidWriter, m_dAttrs,
                   tmpFiles, disk, loc, fed, merged, nRowCalls, nAttrCalls, sError>>

NextFlush ==
    \/ \E uCount \in ({1, 2, VALUES_PER_BLOCK, VALUES_PER_BLOCK + 1, 300}) : RwAddGroup(uCount)
    \/ \E align \in Alignments : RwDone(align)

SpecFlush == InitFlush /\ [][NextFlush]_vars

(***************************************************************************)
(* Builds from an attribute list whose source indexes do not ascend        *)
(***************************************************************************)

InitOrder ==
    /\ dSrcAttrs \in ({ << Attr(1, "STRING"), Attr(0, "INT64"), Attr(2, "UINT32") >> })
    /\ iMemoryLimit \in MemoryLimits
    /\ Constructed

SpecOrder == InitOrder /\ [][Next]_vars

(***************************************************************************)
(* The builder driven with a wider range of calls and short arrays          *)
(***************************************************************************)
\* attribute indexes with and without a collector: negative, NONE-typed, out of range
WideIndexes == {-1, 0, 1, 2}
\* short arrays
SmallArrays == {<< >>, <<5>>, <<5, 7>>}

InitWide ==
    /\ dSrcAttrs \in AttrLists
    /\ iMemoryLimit \in ({48000, 144000})
    /\ Constructed

NextWide ==
    \/ \E tRowID \in ({0, 1, 1000, 2000}) : SetRowID(tRowID)
    \/ \E iAttr \in WideIndexes, tAttr \in ScalarInputs : SetAttrScalar(iAttr, tAttr)
    \/ \E iAttr \in WideIndexes, pData \in Strings : SetAttrBytes(iAttr, pData)
    \/ \E iAttr \in WideIndexes, pData \in SmallArrays : SetAttrArray(iAttr, pData)
    \/ DoneBegin
    \/ \E sFailed \in {"", "tmp.pgmvalues", "src"}, align \in Alignments : ProcessMerge(sFailed, align)
    \/ \E sFailed \in {"", "map"} : ProcessPGM(sFailed)
    \/ \E sFailed \in {"", "dst"} : DoneFinish(sFailed)
    \/ WriteMetaTrailer
    \/ \E sFailed \in {"", "tmp.pgm"} : WriteMetaCopyPgm(sFailed)
    \/ \E sFailed \in {"", "tmp.meta"} : WriteMetaCopyBlocks(sFailed)

SpecWide == InitWide /\ [][NextWide]_vars

(***************************************************************************)
(* Long collection phases: a driver that supplies one row after another,    *)
(* each with one value, for more rows than the flush threshold              *)
(***************************************************************************)
\* the rows the driver supplies, one more than the smallest flush threshold
MaxBudgetRows == 1001

\* the list has one UINT32 attribute; with a memory limit of 0 the threshold is MinMaxRows
InitBudget ==
    /\ dSrcAttrs = << Attr(0, "UINT32") >>
    /\ iMemoryLimit = 0
    /\ Constructed

\* the next row: SetRowID once the row before has its value. The driver supplies either
\* the consecutive row-ids 0, 1, 2, ... or the odd row-ids 1, 3, 5, ...: its first row-id
\* decides which
BudgetSetRowID ==
    /\ pc = "collect"
    /\ nRowCalls < MaxBudgetRows
    /\ nAttrCalls = nRowCalls
    /\ \E tRowID \in (IF nRowCalls = 0 THEN {0, 1}
                      ELSE IF m_tRowID = nRowCalls - 1 THEN {m_tRowID + 1}
                      ELSE {m_tRowID + 2}) : SetRowIDCall(tRowID)

\* the value of the current row
BudgetSetAttr ==
    /\ pc = "collect"
    /\ nAttrCalls < nRowCalls
    /\ BuilderSetAttrCall(0, RawSetAttrScalar(KindAt(0), m_tRowID, 129))

NextBudget ==
    \/ BudgetSetRowID
    \/ BudgetSetAttr

SpecBudget == InitBudget /\ [][NextBudget]_vars

(***************************************************************************)
(* ByteCodec_c on its own: a value is packed and unpacked again. A value of *)
(* type T is the sequence of its bits, the lowest first                    *)
(***************************************************************************)
\* bit k (from 0) of a value; a shift past the width reads 0
Bit(tValue, k) == IF k >= 0 /\ k < Len(tValue) THEN tValue[k + 1] ELSE 0

\* uValue >> 7 and tValue << 7 in the value's own width
Shr7(uValue) == [k \in 1..Len(uValue) |-> Bit(uValue, k - 1 + 7)]
Shl7(tValue) == [k \in 1..Len(tValue) |-> Bit(tValue, k - 1 - 7)]

IsZero(uValue) == \A k \in 1..Len(uValue) : uValue[k] = 0

\* the number bits lo .. lo+6 of a value spell: ( tValue >> lo ) & 0x7f
Low7(tValue, lo) ==
    Bit(tValue, lo) + 2 * Bit(tValue, lo + 1) + 4 * Bit(tValue, lo + 2) + 8 * Bit(tValue, lo + 3)
        + 16 * Bit(tValue, lo + 4) + 32 * Bit(tValue, lo + 5) + 64 * Bit(tValue, lo + 6)

\* tValue | uByte for a byte below 0x80 and a value whose low seven bits are clear
OrByte(tValue, uByte) ==
    [k \in 1..Len(tValue) |->
        IF k <= 7 THEN (IF (uByte \div (2 ^ (k - 1))) % 2 = 1 THEN 1 ELSE tValue[k]) ELSE tValue[k]]

\* the loop of ByteCodec_c::CalcPackedLen
RECURSIVE CalcPackedLenLoop(_, _)
CalcPackedLenLoop(uValue, iNumBytes) ==
    IF IsZero(uValue) THEN iNumBytes ELSE CalcPackedLenLoop(Shr7(uValue), iNumBytes + 1)

\* ByteCodec_c::CalcPackedLen of a value given by its bits
CalcPackedLenOf(tValue) == CalcPackedLenLoop(Shr7(([k \in 1..64 |-> Bit(tValue, k - 1)])), 1)

\* an encoder that writes the lowest 7-bit group first
EncodeValueLowFirst(tValue) ==
    LET iNumBytes == CalcPackedLenOf(tValue)
    IN  [j \in 1..iNumBytes |->
            Low7(tValue, 7 * (j - 1)) + (IF j # iNumBytes THEN 128 ELSE 0)]

\* ByteCodec_c::EncodeValue: the bytes written, in order
EncodeValue(tValue) ==
    LET iNumBytes == CalcPackedLenOf(tValue)
    IN  [j \in 1..iNumBytes |->
            LET i == iNumBytes - j
            IN  Low7(tValue, 7 * i) + (IF i # 0 THEN 128 ELSE 0)]

\* the loop of ByteCodec_c::DecodeValue over the bytes from position iPos on; the value
\* and the position of the last byte read
RECURSIVE DecodeLoop(_, _, _)
DecodeLoop(dBytes, iPos, tValue) ==
    IF dBytes[iPos] >= 128
    THEN DecodeLoop(dBytes, iPos + 1, OrByte(Shl7(tValue), dBytes[iPos] % 128))
    ELSE [tValue |-> OrByte(Shl7(tValue), dBytes[iPos]), iRead |-> iPos]

\* ByteCodec_c::DecodeValue<T> for a T of iBits bits
DecodeValue(dBytes, iBits) == DecodeLoop(dBytes, 1, [k \in 1..iBits |-> 0])

\* the values given to Pack_uint32 and Pack_uint64: 0 and, for every bit length n of the
\* width, the smallest value of that length, the largest and one with every other bit set
Ones(iBits, n) == [k \in 1..iBits |-> IF k <= n THEN 1 ELSE 0]

\* with them the values with only bit n set and the values with bit n and every other
\* bit below it set, for both widths
VarintInputs ==
    UNION { {Ones(w, n) : n \in 0..w} \cup {[k \in 1..w |-> IF k = n THEN 1 ELSE 0] : n \in 1..w}
                \cup {[k \in 1..w |-> IF k = n \/ (k < n /\ k % 2 = 0) THEN 1 ELSE 0] : n \in 1..w} : w \in ({32, 64}) }

InitVarint ==
    /\ pc = "vi_value"
    /\ \E tValue \in VarintInputs :
           rw = [tValue |-> tValue, dBytes |-> << >>, tRead |-> << >>, iRead |-> 0]
    /\ dSrcAttrs = << >>
    /\ iMemoryLimit = 0
    /\ m_tRowID = 0
    /\ m_iMaxRows = MinMaxRows
    /\ m_dRawWriter = << >>
    /\ m_dCidWriter = << >>
    /\ m_dAttrs = << >>
    /\ tmpFiles = [a \in SrcIndexes |-> NoFile]
    /\ disk = [f \in FileNames |-> NoFile]
    /\ loc = NoLoc
    /\ fed = << >>
    /\ merged = << >>
    /\ nRowCalls = 0
    /\ nAttrCalls = 0
    /\ sError = ""

\* Pack_uint32 / Pack_uint64 into a buffer that goes on with other bytes
Pack_uint(dTrail) ==
    /\ pc = "vi_value"
    /\ rw' = [rw EXCEPT !.dBytes = EncodeValue(rw.tValue) \o dTrail]
    /\ pc' = "vi_packed"
    /\ UNCHANGED <<dSrcAttrs, iMemoryLimit, m_tRowID, m_iMaxRows, m_dRawWriter, m_dCidWriter, m_dAttrs,
                   tmpFiles, disk, loc, fed, merged, nRowCalls, nAttrCalls, sError>>

\* Unpack_uint32 / Unpack_uint64 from the start of the buffer
Unpack_uint ==
    /\ pc = "vi_packed"
    /\ LET r == DecodeValue(rw.dBytes, Len(rw.tValue))
       IN  rw' = [rw EXCEPT !.tRead = r.tValue, !.iRead = r.iRead]
    /\ pc' = "vi_unpacked"
    /\ UNCHANGED <<dSrcAttrs, iMemoryLimit, m_tRowID, m_iMaxRows, m_dRawWriter, m_dCidWriter, m_dAttrs,
                   tmpFiles, disk, loc, fed, merged, nRowCalls, nAttrCalls, sError>>

NextVarint ==
    \/ \E dTrail \in ({<< 0 >>, << 255 >>}) : Pack_uint(dTrail)
    \/ Unpack_uint

SpecVarint == InitVarint /\ [][NextVarint]_vars

(***************************************************************************)
(* Calls after Done: the driver goes on calling SetRowID, SetAttr and Done *)
(* on a builder whose Done has returned true                               *)
(***************************************************************************)
\* SetRowID calls after Done has returned
MaxLateCalls == 1

\* Builder_c::SetRowID before Done and after it has returned true
SetRowIDAnytime(tRowID) ==
    /\ \/ pc = "collect" /\ nRowCalls < MaxRowCalls
       \/ pc = "done" /\ nRowCalls < MaxRowCalls + MaxLateCalls
    /\ SetRowIDCall(tRowID)

\* a SetAttr overload before Done and after it has returned true
SetAttrAnytime(iAttr, pairs) ==
    pc \in {"collect", "done"} /\ nAttrCalls < MaxAttrCalls /\ BuilderSetAttrCall(iAttr, pairs)

\* what the output file holds when the process dies in the loop of a second Done: the
\* header sits in the buffer of tDstFile, which is written out or not
CrashedDst == {EmptyFile, [exists |-> TRUE, data |-> Header]}

\* Builder_c::Done on a builder whose Done has returned true: m_dRawWriter is empty, so
\* no writer is added to m_dCidWriter, which still has the slots the first Done set to
\* nullptr; after the three Opens and the header the loop calls Process through
\* m_dCidWriter[0], a null pointer, and the process dies there
DoneAgain(sFailed) ==
    /\ pc = "done"
    /\ Len(m_dCidWriter) > 0
    /\ sError' = sFailed
    /\ IF sFailed = ""
       THEN /\ pc' = "crashed"
            /\ \E dDst \in CrashedDst :
                   disk' = [disk EXCEPT !["dst"] = dDst,
                                        !["tmp.meta"] = EmptyFile,
                                        !["tmp.pgm"] = EmptyFile]
       ELSE /\ pc' = "failed"
            /\ disk' = IF sFailed = "dst" THEN disk ELSE [disk EXCEPT !["dst"] = EmptyFile]
    /\ UNCHANGED <<dSrcAttrs, iMemoryLimit, m_tRowID, m_iMaxRows, m_dRawWriter, m_dCidWriter,
                   m_dAttrs, tmpFiles, loc, fed, merged, nRowCalls, nAttrCalls, rw>>

NextLate ==
    \/ \E tRowID \in RowIDs : SetRowIDAnytime(tRowID)
    \/ \E iAttr \in AttrIndexes, tAttr \in ScalarInputs : (SetAttrAnytime(iAttr, RawSetAttrScalar(KindAt(iAttr), m_tRowID, tAttr)))
    \/ \E iAttr \in AttrIndexes, pData \in Strings : (SetAttrAnytime(iAttr, RawSetAttrBytes(KindAt(iAttr), m_tRowID, pData)))
    \/ \E iAttr \in AttrIndexes, pData \in Arrays : (SetAttrAnytime(iAttr, RawSetAttrArray(KindAt(iAttr), m_tRowID, pData)))
    \/ DoneBegin
    \/ \E sFailed \in {"", "tmp.pgmvalues", "src"}, align \in Alignments : ProcessMerge(sFailed, align)
    \/ \E sFailed \in {"", "map"} : ProcessPGM(sFailed)
    \/ \E sFailed \in {"", "dst"} : DoneFinish(sFailed)
    \/ WriteMetaTrailer
    \/ \E sFailed \in {"", "tmp.pgm"} : WriteMetaCopyPgm(sFailed)
    \/ \E sFailed \in {"", "tmp.meta"} : WriteMetaCopyBlocks(sFailed)
    \/ \E sFailed \in {""} \cup DoneOpens : DoneAgain(sFailed)

SpecLate == Init /\ [][NextLate]_vars

(***************************************************************************)
(* CreateBuilder as a step of its own, on attribute lists with and without *)
(* a collector                                                             *)
(***************************************************************************)

\* nothing is constructed yet
InitCreate ==
    /\ pc = "create"
    /\ dSrcAttrs \in AttrLists \cup ({ << >>, << Attr(0, "NONE") >>, << Attr(0, "NONE"), Attr(1, "BOOLEAN") >> })
    /\ iMemoryLimit \in MemoryLimits \cup {0}
    /\ m_tRowID = 0
    /\ m_dRawWriter = << >>
    /\ m_iMaxRows = 0
    /\ m_dCidWriter = << >>
    /\ m_dAttrs = << >>
    /\ tmpFiles = [a \in SrcIndexes |-> NoFile]
    /\ disk = [f \in FileNames |-> NoFile]
    /\ loc = NoLoc
    /\ fed = << >>
    /\ merged = << >>
    /\ nRowCalls = 0
    /\ nAttrCalls = 0
    /\ sError = ""
    /\ rw = NoRW

\* iRowSize of Builder_c::Setup for an attribute list
RowSizeOf(attrs) == SumItemSize(SetupRawWriter(attrs), 1)

\* CreateBuilder: Builder_c::Setup. With iRowSize = 0 the division of line 238 is
\* undefined: the process dies of the trap (bTrap), or the division yields iQuotient
CreateBuilder(bTrap, iQuotient) ==
    /\ pc = "create"
    /\ IF RowSizeOf(dSrcAttrs) = 0 /\ bTrap
       THEN /\ pc' = "crashed"
            /\ UNCHANGED <<m_dRawWriter, m_iMaxRows, m_dAttrs, tmpFiles, fed>>
       ELSE /\ pc' = "collect"
            /\ m_dRawWriter' = SetupRawWriter(dSrcAttrs)
            /\ m_iMaxRows' = IF RowSizeOf(dSrcAttrs) = 0
                             THEN Max(MinMaxRows, iQuotient)
                             ELSE SetupMaxRows(iMemoryLimit, SetupRawWriter(dSrcAttrs))
            /\ m_dAttrs' = SetupAttrs(dSrcAttrs)
            /\ tmpFiles' = SetupTmpFiles(dSrcAttrs)
            /\ fed' = [s \in 1..RawWriterSlots(dSrcAttrs) |-> EmptyBag]
    /\ UNCHANGED <<dSrcAttrs, iMemoryLimit, m_tRowID, m_dCidWriter, disk, loc, merged,
                   nRowCalls, nAttrCalls, sError, rw>>

\* Builder_c::Done of a builder without a collector: m_dCidWriter stays empty, the files
\* are opened, the loops do nothing, and line 345 calls back() on the empty dBlocksCount
\* and dBlocksOffStart, which is undefined: the process dies there (bTrap) or goes on
DoneNoCollector(sFailed, bTrap) ==
    /\ pc = "collect"
    /\ CidWriters(WritersOf(CollectorsDone)) = << >>
    /\ m_dCidWriter' = << >>
    /\ m_dRawWriter' = << >>
    /\ sError' = sFailed
    /\ loc' = NoLoc
    /\ IF sFailed # ""
       THEN /\ pc' = "failed"
            /\ disk' = IF sFailed = "dst" THEN disk ELSE [disk EXCEPT !["dst"] = EmptyFile]
       ELSE IF bTrap
       THEN /\ pc' = "crashed"
            /\ \E dDst \in CrashedDst :
                   disk' = [disk EXCEPT !["dst"] = dDst,
                                        !["tmp.meta"] = EmptyFile,
                                        !["tmp.pgm"] = EmptyFile]
       ELSE /\ pc' = "finish"
            /\ disk' = [disk EXCEPT !["dst"] = [exists |-> TRUE, data |-> Header],
                                    !["tmp.meta"] = EmptyFile,
                                    !["tmp.pgm"] = EmptyFile]
    /\ UNCHANGED <<dSrcAttrs, iMemoryLimit, m_tRowID, m_iMaxRows, m_dAttrs, tmpFiles, fed, merged,
                   nRowCalls, nAttrCalls, rw>>

NextCreate ==
    \/ \E bTrap \in BOOLEAN, iQuotient \in ({0, -1}) : CreateBuilder(bTrap, iQuotient)
    \/ \E tRowID \in RowIDs : SetRowID(tRowID)
    \/ \E iAttr \in AttrIndexes, tAttr \in ScalarInputs : SetAttrScalar(iAttr, tAttr)
    \/ \E iAttr \in AttrIndexes, pData \in Strings : SetAttrBytes(iAttr, pData)
    \/ \E iAttr \in AttrIndexes, pData \in Arrays : SetAttrArray(iAttr, pData)
    \/ (CidWriters(WritersOf(CollectorsDone)) # << >> /\ DoneBegin)
    \/ \E sFailed \in {""} \cup DoneOpens, bTrap \in BOOLEAN : DoneNoCollector(sFailed, bTrap)
    \/ \E sFailed \in {"", "tmp.pgmvalues", "src"}, align \in Alignments : ProcessMerge(sFailed, align)
    \/ \E sFailed \in {"", "map"} : ProcessPGM(sFailed)
    \/ \E sFailed \in {"", "dst"} : DoneFinish(sFailed)
    \/ WriteMetaTrailer
    \/ \E sFailed \in {"", "tmp.pgm"} : WriteMetaCopyPgm(sFailed)
    \/ \E sFailed \in {"", "tmp.meta"} : WriteMetaCopyBlocks(sFailed)

SpecCreate == InitCreate /\ [][NextCreate]_vars

(***************************************************************************)
(* Reading the output file back                                            *)
(***************************************************************************)
Range(s) == {s[i] : i \in 1..Len(s)}

\* the running sums of dData[lo..hi] on top of base
RECURSIVE UndeltaRange(_, _, _, _)
UndeltaRange(dData, lo, hi, base) ==
    IF lo > hi THEN << >>
    ELSE IF lo = hi THEN << base + dData[lo] >>
    ELSE LET mid == (lo + hi) \div 2
             dLeft == UndeltaRange(dData, lo, mid, base)
         IN  dLeft \o UndeltaRange(dData, mid + 1, hi, dLeft[Len(dLeft)])

\* the inverse of ComputeDeltas: running sums
Undelta(dData) == UndeltaRange(dData, 1, Len(dData), 0)

\* the records of the output file
Dst == disk["dst"].data

\* the header's meta_offset
MetaOffset == Dst[2].v

\* a meta trailer is complete at the place the header points to
HasMeta == \E r \in Range(Dst) : r.kind = "meta" /\ r.off = MetaOffset

Meta == CHOOSE r \in Range(Dst) : r.kind = "meta" /\ r.off = MetaOffset

\* block_offsets_starts after un-deltaing
BlockOffsetsStarts == Undelta(Meta.dBlocksOffStart)

\* the block-offsets table at the end of the file
BlockOffs == (CHOOSE r \in Range(Dst) : r.kind = "blockoffs").offs

\* the index in rows_packed of the item that starts at byte iOff
PackedIndex(tBlock, iOff) ==
    CHOOSE j \in 1..Len(tBlock.rowsPacked) : tBlock.rowsPacked[j].off = iOff

\* the row-ids of one encoded row-block
RowBlockRows(tItem) == Undelta(tItem.dBuf.src)

\* the row-ids of the row-blocks j .. j + n - 1 of rows_packed, joined
RECURSIVE RowBlocksRows(_, _, _)
RowBlocksRows(tBlock, j, n) ==
    IF n = 0 THEN << >>
    ELSE RowBlockRows(tBlock.rowsPacked[j]) \o RowBlocksRows(tBlock, j + 1, n - 1)

\* the posting of a value from its type tag and its row_start entry
Posting(tBlock, eType, uStart) ==
    CASE eType = "ROW" -> << uStart >>
      [] eType = "ROW_BLOCK" -> RowBlocksRows(tBlock, PackedIndex(tBlock, uStart), 1)
      [] OTHER -> LET j == PackedIndex(tBlock, uStart)
                  IN  RowBlocksRows(tBlock, j + 1, tBlock.rowsPacked[j].iBlocks)

\* a value block decoded: its values, type tags and postings
DecodeBlock(tBlock) ==
    LET dValues == Undelta(tBlock.values.src)
        dTypes == tBlock.types.src
        dRowStart == IF tBlock.bLenDelta THEN Undelta(tBlock.rowStart.src)
                     ELSE tBlock.rowStart.src
    IN  [values |-> dValues, types |-> dTypes, rowStart |-> dRowStart,
         postings |-> [k \in 1..(IF (Len(dTypes)) < (Len(dRowStart)) THEN (Len(dTypes)) ELSE (Len(dRowStart))) |->
                          Posting(tBlock, dTypes[k], dRowStart[k])]]

\* the index read back through the header and the meta: per attribute of the meta, its
\* value blocks decoded, in order
ReadIndex ==
    LET tMeta == Meta
        dStarts == Undelta(tMeta.dBlocksOffStart)
        dOffs == BlockOffs
        dBlocks == SelectSeq(Dst, LAMBDA r : r.kind = "block")
    IN  [iAttr \in 1..tMeta.attr_count |->
            [k \in 1..tMeta.dBlocksCount[iAttr] |->
                DecodeBlock(CHOOSE r \in Range(dBlocks) :
                                r.off = dOffs[dStarts[iAttr] \div SizeofU64 + k])]]

\* the values of blocks k.. of a sequence of decoded blocks, joined
RECURSIVE ValuesFrom(_, _)
ValuesFrom(dBlocks, k) ==
    IF k > Len(dBlocks) THEN << >> ELSE dBlocks[k].values \o ValuesFrom(dBlocks, k + 1)

\* the number of blocks of the attributes iAttr.. of a decoded index
RECURSIVE BlocksFrom(_, _)
BlocksFrom(dIndex, iAttr) ==
    IF iAttr > Len(dIndex) THEN 0 ELSE Len(dIndex[iAttr]) + BlocksFrom(dIndex, iAttr + 1)

\* the distinct values emitted for an attribute, read across its decoded blocks in order
EmittedValues(dBlocks) == ValuesFrom(dBlocks, 1)

\* the collector the iAttr-th SIWriter of m_dCidWriter came from
CollectorOf(iAttr) == SelectSeq(SetupRawWriter(dSrcAttrs), LAMBDA w : ~IsNull(w))[iAttr]

\* the bag of pairs fed to the iAttr-th attribute of the meta
FedTo(iAttr) == fed[CollectorOf(iAttr).iAttr + 1]

FedValues(iAttr) == {p.m_tValue : p \in BagToSet(FedTo(iAttr))}

\* ceil ( n / VALUES_PER_BLOCK )
BlocksFor(n) == (n + VALUES_PER_BLOCK - 1) \div VALUES_PER_BLOCK

Succeeded == pc = "done"

(***************************************************************************)
(* Properties                                                              *)
(***************************************************************************)
\* C1: after a successful build the distinct values emitted for an attribute, read across
\* its blocks in order, are the distinct values fed to it, each once, in the ascending order
\* of the collector's value type (so no value group is split across two blocks)
C1_EmittedValuesSortedDistinct ==
    Succeeded =>
        LET dIndex == ReadIndex
        IN  \A iAttr \in 1..Len(m_dAttrs) :
                LET dValues == EmittedValues(dIndex[iAttr])
                    kind == CollectorOf(iAttr).kind
                IN  /\ \A k \in 1..(Len(dValues) - 1) :
                        ValueLess(kind, dValues[k], dValues[k + 1])
                    /\ Range(dValues) = FedValues(iAttr)

\* a successful build whose attribute was collected in two runs and fills more than one block
C1_Witness ==
    /\ Succeeded
    /\ \E iAttr \in 1..Len(m_dAttrs) :
        /\ merged[iAttr].nRuns >= 2
        /\ Meta.dBlocksCount[iAttr] >= 2
        /\ Len(EmittedValues(ReadIndex[iAttr])) < BagCardinality(FedTo(iAttr))

\* C2: the posting emitted for a value holds exactly the row-ids of the pairs fed with that
\* value, as often as they were fed, in ascending order, whatever the order of the calls
\* and the number of runs
C2_PostingsSortedComplete ==
    Succeeded =>
        LET dIndex == ReadIndex
        IN  \A iAttr \in 1..Len(m_dAttrs) :
                LET dFed == FedTo(iAttr)
                IN  \A iBlock \in 1..Len(dIndex[iAttr]) :
                        LET tBlock == dIndex[iAttr][iBlock]
                        IN  \A k \in 1..Len(tBlock.values) :
                                LET dRows == tBlock.postings[k]
                                IN  /\ \A j \in 1..(Len(dRows) - 1) : dRows[j] <= dRows[j + 1]
                                    /\ Range(dRows) \subseteq RowIDs
                                    /\ \A tRowid \in RowIDs :
                                        (Cardinality({j \in 1..Len(dRows) : dRows[j] = tRowid}))
                                            = CopiesIn(RawValue_T(tBlock.values[k], tRowid), dFed)

\* a successful build where one value got different row-ids from two runs and its posting
\* spans several row-blocks
C2_Witness ==
    /\ Succeeded
    /\ \E iAttr \in 1..Len(m_dAttrs) :
        /\ merged[iAttr].nRuns >= 2
        /\ \E tBlock \in Range(ReadIndex[iAttr]) :
            \E k \in 1..Len(tBlock.values) :
                /\ tBlock.types[k] = "ROW_BLOCKS_LIST"
                /\ Cardinality(Range(tBlock.postings[k])) >= 2

\* C3: whenever the header of the output file holds a non-zero meta_offset, a completely
\* written meta trailer is at that offset
C3_MetaOffsetPointsAtTrailer ==
    (disk["dst"].exists /\ Len(Dst) >= 2 /\ MetaOffset # 0) => HasMeta

\* C4: when Done has returned successfully no collector file <output>.<attr>.tmp and none of
\* the side files .tmp.meta, .tmp.pgm, .tmp.pgmvalues exists
C4_NoTempFilesAfterDone ==
    Succeeded =>
        /\ \A a \in SrcIndexes : ~tmpFiles[a].exists
        /\ \A f \in TmpNames : ~disk[f].exists

\* a successful build of two attributes, the first without pairs, the second with two runs
C4_Witness ==
    /\ Succeeded
    /\ disk["dst"].exists
    /\ Len(merged) = 2
    /\ merged[1].nRuns = 0
    /\ merged[2].nRuns >= 2

C6_MergedStreamSortedPermutation ==
    [][ (pc = "process" /\ pc' = "pgm") =>
            LET wr == m_dCidWriter[loc.iWriter + 1]
                dFwd == merged'[Len(merged')].fwd
                dSrc == tmpFiles[wr.m_sSrcName].data
            IN  /\ \A k \in 1..(Len(dFwd) - 1) : ~RawValueCmp(wr.kind, dFwd[k + 1], dFwd[k])
                /\ Len(dFwd) = Len(dSrc)
                /\ BagOfSeq(dFwd, 1, Len(dFwd)) = BagOfSeq(dSrc, 1, Len(dSrc)) ]_vars

\* a merge of two runs has forwarded more pairs than fit a block, with different row-ids
C6_Witness ==
    /\ pc = "pgm"
    /\ LET tLast == merged[Len(merged)]
       IN  /\ tLast.nRuns >= 2
           /\ Len(tLast.fwd) > VALUES_PER_BLOCK
           /\ tLast.fwd[1].m_tRowid # tLast.fwd[Len(tLast.fwd)].m_tRowid

\* C8: an attribute with D distinct values has ceil(D/128) value blocks and that block count
\* in the meta; every block holds 1..128 values with as many row_start and type entries,
\* every block but the last holds 128 values; the file holds no other value block
C8_BlocksPerAttribute ==
    Succeeded =>
        LET dIndex == ReadIndex
        IN  /\ \A iAttr \in 1..Len(m_dAttrs) :
                LET dBlocks == dIndex[iAttr]
                IN  /\ Len(dBlocks) = BlocksFor(Cardinality(FedValues(iAttr)))
                    /\ Meta.dBlocksCount[iAttr] = Len(dBlocks)
                    /\ \A k \in 1..Len(dBlocks) :
                        /\ Len(dBlocks[k].values) \in 1..VALUES_PER_BLOCK
                        /\ Len(dBlocks[k].rowStart) = Len(dBlocks[k].values)
                        /\ Len(dBlocks[k].types) = Len(dBlocks[k].values)
                        /\ k < Len(dBlocks) => Len(dBlocks[k].values) = VALUES_PER_BLOCK
            /\ Cardinality({i \in 1..Len(Dst) : Dst[i].kind = "block"}) = BlocksFrom(dIndex, 1)

\* a successful build with an attribute of 129 distinct values: two blocks
C8_Witness ==
    /\ Succeeded
    /\ \E iAttr \in 1..Len(m_dAttrs) :
        /\ Cardinality(FedValues(iAttr)) = VALUES_PER_BLOCK + 1
        /\ Meta.dBlocksCount[iAttr] = 2

\* C9 as stated: after a successful build with two or more attributes the un-deltaed
\* block-offset starts of the meta are strictly increasing
C9_StartsStrictlyIncreasing ==
    (Succeeded /\ Len(m_dAttrs) >= 2) =>
        \A i \in 1..(Len(m_dAttrs) - 1) : BlockOffsetsStarts[i] < BlockOffsetsStarts[i + 1]

\* C9 amended: the un-deltaed starts begin at 0 and each next start is the previous one
\* plus 8 bytes per block of the previous attribute, so they never decrease and they
\* increase exactly across an attribute that received at least one pair
C9_StartsFollowBlockCounts ==
    Succeeded =>
        LET dStarts == BlockOffsetsStarts
        IN  /\ Len(dStarts) = Len(m_dAttrs)
            /\ Len(dStarts) > 0 => dStarts[1] = 0
            /\ \A i \in 1..(Len(dStarts) - 1) :
                /\ dStarts[i + 1] = dStarts[i] + SizeofU64 * Meta.dBlocksCount[i]
                /\ dStarts[i] < dStarts[i + 1] <=> FedTo(i) # EmptyBag

\* a successful build of two attributes where the first received no pair and the second did
C9_Witness ==
    /\ Succeeded
    /\ Len(m_dAttrs) = 2
    /\ FedTo(1) = EmptyBag
    /\ FedTo(2) # EmptyBag
    /\ BlockOffsetsStarts[1] = BlockOffsetsStarts[2]

\* C10 as stated: the attr_count of the meta and the numbers of its schema, start and count
\* entries equal the number of attributes of the list given to the builder
C10_AttrCountIsListLength ==
    Succeeded =>
        /\ Meta.attr_count = Len(dSrcAttrs)
        /\ Len(Meta.schema) = Len(dSrcAttrs)
        /\ Len(Meta.dBlocksOffStart) = Len(dSrcAttrs)
        /\ Len(Meta.dBlocksCount) = Len(dSrcAttrs)

\* C10 amended (lists with distinct, ascending source indexes): the attr_count of the meta
\* and the numbers of its schema, start and count entries equal the number of attributes
\* of the list whose type gets a collector, and the schema lists these in list order
C10_AttrCountIsCollectedCount ==
    Succeeded =>
        LET dLive == { i \in 1..Len(dSrcAttrs) :
                         dSrcAttrs[i].m_eType \in {"UINT32", "TIMESTAMP", "UINT32SET", "FLOAT",
                                                   "STRING", "INT64", "INT64SET"} }
        IN  /\ Meta.attr_count = Cardinality(dLive)
            /\ Len(Meta.schema) = Cardinality(dLive)
            /\ Len(Meta.dBlocksOffStart) = Cardinality(dLive)
            /\ Len(Meta.dBlocksCount) = Cardinality(dLive)
            /\ \A i \in dLive :
                LET n == Cardinality({j \in dLive : j <= i})
                IN  /\ Meta.schema[n].m_iSrcAttr = dSrcAttrs[i].m_iAttr
                    /\ Meta.schema[n].m_eType = dSrcAttrs[i].m_eType
                    /\ Meta.schema[n].m_iAttr = n - 1

\* a successful build from a list of two attributes of which one has no collector
C10_Witness ==
    /\ Succeeded
    /\ Len(dSrcAttrs) = 2
    /\ Meta.attr_count = 1
    /\ FedTo(1) # EmptyBag

\* the sizes of the n sub-blocks of a group of uCount row-ids: 128 each, the rest in the last
SubBlockSizes(uCount, n) ==
    [i \in 1..n |-> IF i < n THEN VALUES_PER_BLOCK ELSE uCount - VALUES_PER_BLOCK * (n - 1)]

\* C7: in a flushed block a group with c row-ids is laid out by c alone: c = 1 has tag ROW
\* and the row-id in row_start; 2 <= c <= 128 has tag ROW_BLOCK and one row-block; c > 128
\* has tag ROW_BLOCKS_LIST, a block count of ceil(c/128), sub-blocks of 128 row-ids and a
\* last one of c - 128*(ceil(c/128)-1), which joined in order are the group's posting
C7_GroupLayoutByCount ==
    pc = "rw_flushed" =>
        LET tBlock == rw.ws[2].dst[1]
            d == DecodeBlock(tBlock)
        IN  /\ Len(d.values) = Len(rw.counts)
            /\ \A k \in 1..Len(rw.counts) :
                LET c == rw.counts[k]
                    dRows == GroupRows(k, c)
                    j == PackedIndex(tBlock, d.rowStart[k])
                IN  /\ d.postings[k] = dRows
                    /\ c = 1 => d.types[k] = "ROW" /\ d.rowStart[k] = dRows[1]
                    /\ (2 <= c /\ c <= VALUES_PER_BLOCK) =>
                        /\ d.types[k] = "ROW_BLOCK"
                        /\ tBlock.rowsPacked[j].kind = "rows"
                        /\ RowBlockRows(tBlock.rowsPacked[j]) = dRows
                    /\ c > VALUES_PER_BLOCK =>
                        /\ d.types[k] = "ROW_BLOCKS_LIST"
                        /\ tBlock.rowsPacked[j].kind = "count"
                        /\ tBlock.rowsPacked[j].iBlocks = BlocksFor(c)
                        /\ \A i \in 1..BlocksFor(c) :
                            /\ tBlock.rowsPacked[j + i].kind = "rows"
                            /\ Len(RowBlockRows(tBlock.rowsPacked[j + i]))
                                   = SubBlockSizes(c, BlocksFor(c))[i]
                            /\ SubBlockSizes(c, BlocksFor(c))[i] \in 1..VALUES_PER_BLOCK

\* a flushed block with a group of one row-id, one of 129 (128 + 1) and one of 300
\* (128 + 128 + 44)
C7_Witness ==
    /\ pc = "rw_flushed"
    /\ rw.counts = <<1, VALUES_PER_BLOCK + 1, 300>>
    /\ rw.ws[2].dst[1].types.src = <<"ROW", "ROW_BLOCKS_LIST", "ROW_BLOCKS_LIST">>

\* the offsets of the value blocks of the output file, in file order
BlockOffsInFile == [i \in 1..Len(SelectSeq(Dst, LAMBDA r : r.kind = "block")) |->
                        SelectSeq(Dst, LAMBDA r : r.kind = "block")[i].off]

\* C11: after a successful build the i-th schema entry of the meta describes the attribute
\* whose blocks the i-th block_offsets_starts and block_counts entries delimit (these
\* blocks hold the values fed to the schema entry's source attribute), and the blocks of
\* each attribute are one contiguous range of the file, attribute after attribute
C11_SchemaOrderIsProcessingOrder ==
    Succeeded =>
        LET dIndex == ReadIndex
            tMeta == Meta
        IN  /\ \A i \in 1..tMeta.attr_count :
                Range(EmittedValues(dIndex[i])) = ({p.m_tValue : p \in BagToSet(fed[(tMeta.schema[i].m_iSrcAttr) + 1])})
            /\ BlockOffs = BlockOffsInFile
            /\ \A i \in 1..(tMeta.attr_count - 1) :
                BlockOffsetsStarts[i + 1]
                    = BlockOffsetsStarts[i] + SizeofU64 * tMeta.dBlocksCount[i]

\* the PGM blobs copied into the output file after the meta
Pgms == (CHOOSE r \in Range(Dst) : r.kind = "pgms").blobs

\* C12: after a successful build an attribute that received no pair has forwarded no pair
\* to the block encoder, has no value block and a block_counts entry of 0, has its schema
\* entry and one PGM blob over no values; when no attribute received a pair the file holds
\* the header, the meta, the PGM blobs and an empty block-offsets table
C12_EmptyAttributeEmitsNothing ==
    Succeeded =>
        LET dIndex == ReadIndex
            tMeta == Meta
        IN  /\ Len(Pgms) = Len(m_dAttrs)
            /\ Len(tMeta.schema) = Len(m_dAttrs)
            /\ \A i \in 1..Len(m_dAttrs) :
                FedTo(i) = EmptyBag =>
                    /\ merged[i].fwd = << >>
                    /\ dIndex[i] = << >>
                    /\ tMeta.dBlocksCount[i] = 0
                    /\ Pgms[i] = PGM_T(<< >>)
                    /\ tMeta.schema[i].m_iAttr = i - 1
            /\ (\A i \in 1..Len(m_dAttrs) : FedTo(i) = EmptyBag) =>
                    /\ [k \in 1..Len(Dst) |-> Dst[k].kind]
                            = <<"version", "meta_offset", "meta", "pgms", "blockoffs">>
                    /\ BlockOffs = << >>

\* a successful build of two attributes of which the first received pairs and the second
\* none
C12_Witness ==
    /\ Succeeded
    /\ Len(m_dAttrs) = 2
    /\ FedTo(1) # EmptyBag
    /\ FedTo(2) = EmptyBag
    /\ Meta.dBlocksCount = <<1, 0>>
    /\ Len(Pgms) = 2

\* S: the sum over the attributes that get a collector of the size of a stored pair,
\* 8 bytes for the 32-bit value types and 16 bytes for the 64-bit ones
RECURSIVE PairSizeSum(_, _)
PairSizeSum(attrs, i) ==
    IF i > Len(attrs) THEN 0
    ELSE (CASE attrs[i].m_eType \in {"UINT32", "TIMESTAMP", "UINT32SET", "FLOAT"} -> 8
            [] attrs[i].m_eType \in {"STRING", "INT64", "INT64SET"} -> 16
            [] OTHER -> 0)
         + PairSizeSum(attrs, i + 1)

\* C13: the threshold is max(1000, M / 3 / S) and at least 1000; a SetRowID call with a
\* row-id that is a multiple of the threshold leaves every collector's buffer empty, its
\* pairs appended to the collector's file; no other SetRowID or SetAttr call writes to a
\* file, records a run or shrinks a buffer
C13_FlushOnlyAtThreshold ==
    [][ (pc = "collect" /\ pc' = "collect") =>
            /\ m_iMaxRows >= 1000
            /\ m_iMaxRows = Max(1000, (iMemoryLimit \div 3) \div PairSizeSum(dSrcAttrs, 1))
            /\ \A s \in 1..Len(m_dRawWriter) :
                ~IsNull(m_dRawWriter[s]) =>
                    IF (nRowCalls' # nRowCalls /\ m_tRowID' % m_iMaxRows = 0)
                    THEN /\ m_dRawWriter'[s].m_dRows = << >>
                         /\ Len(tmpFiles'[s - 1].data)
                                = Len(tmpFiles[s - 1].data) + Len(m_dRawWriter[s].m_dRows)
                    ELSE /\ tmpFiles'[s - 1] = tmpFiles[s - 1]
                         /\ m_dRawWriter'[s].m_dOffset = m_dRawWriter[s].m_dOffset
                         /\ Len(m_dRawWriter'[s].m_dRows) >= Len(m_dRawWriter[s].m_dRows) ]_vars

\* with a threshold of 2000 a pair collected for row 1000 stayed in memory until
\* SetRowID ( 2000 ) flushed it
C13_Witness ==
    /\ pc = "collect"
    /\ m_iMaxRows = 2000
    /\ m_tRowID = 2000
    /\ \E s \in 1..Len(m_dRawWriter) :
        /\ ~IsNull(m_dRawWriter[s])
        /\ m_dRawWriter[s].m_dRows = << >>
        /\ m_dRawWriter[s].m_dOffset = <<0>>
        /\ tmpFiles[s - 1].data[1].m_tRowid = 1000

\* C14: after a successful build the output file is, without gaps, the header (version at
\* 0, meta_offset at 4), the value blocks attribute after attribute in processing order,
\* the meta trailer, the PGM blobs (one per attribute, in attribute order, over that
\* attribute's values) and the block offsets of all blocks in file order; the header's
\* meta_offset is the position right after the last block
C14_OutputLayout ==
    Succeeded =>
        LET n == Len(Dst)
            dIndex == ReadIndex
        IN  /\ n >= 5
            /\ Dst[1].kind = "version" /\ Dst[1].off = 0 /\ Dst[1].len = 4
            /\ Dst[2].kind = "meta_offset" /\ Dst[2].off = 4 /\ Dst[2].len = 8
            /\ \A k \in 3..(n - 3) : Dst[k].kind = "block"
            /\ Dst[n - 2].kind = "meta"
            /\ Dst[n - 1].kind = "pgms"
            /\ Dst[n].kind = "blockoffs"
            /\ \A k \in 1..(n - 1) : Dst[k + 1].off = Dst[k].off + Dst[k].len
            /\ MetaOffset = Dst[n - 3].off + Dst[n - 3].len
            /\ MetaOffset = Dst[n - 2].off
            /\ \A i \in 1..Len(m_dAttrs) :
                /\ \A k \in 1..Len(dIndex[i]) :
                    /\ DecodeBlock(Dst[2 + (BlocksFrom(SubSeq(dIndex, 1, i - 1), 1)) + k]) = dIndex[i][k]
                    /\ Range(dIndex[i][k].values) \subseteq FedValues(i)
                /\ Pgms[i] = PGM_T(EmittedValues(dIndex[i]))
            /\ Len(Pgms) = Len(m_dAttrs)
            /\ Dst[n - 1].len = PGMFileBytes(Pgms, 1)
            /\ BlockOffs = [k \in 1..(n - 5) |-> Dst[2 + k].off]
            /\ Dst[n].len = SizeofU64 * (n - 5)

\* a successful build of two attributes that both have a block
C14_Witness ==
    /\ Succeeded
    /\ Len(m_dAttrs) = 2
    /\ Meta.dBlocksCount[1] >= 1
    /\ Meta.dBlocksCount[2] >= 1
    /\ MetaOffset > SizeofU32 + SizeofU64

\* C15: a SetAttr call with an array on a set-typed attribute appends to that collector one
\* pair per element, in order, each with the current row-id (none for an empty array); and
\* after a successful build every pair fed to a set-typed attribute has its row-id in the
\* posting of its value
C15_SetExpansion ==
    /\ [][ \A iAttr \in WideIndexes, pData \in SmallArrays :
                ( /\ HasWriter(iAttr)
                  /\ m_dRawWriter[iAttr + 1].m_eAttrType \in ({"UINT32SET", "INT64SET"})
                  /\ SetAttrArray(iAttr, pData) ) =>
                    m_dRawWriter'[iAttr + 1].m_dRows
                        = m_dRawWriter[iAttr + 1].m_dRows
                          \o [i \in 1..Len(pData) |-> RawValue_T(pData[i], m_tRowID)] ]_vars
    /\ [](Succeeded =>
            LET dIndex == ReadIndex
            IN  \A i \in 1..Len(m_dAttrs) :
                    m_dAttrs[i].m_eType \in ({"UINT32SET", "INT64SET"}) =>
                        \A p \in BagToSet(FedTo(i)) :
                            \E tBlock \in Range(dIndex[i]) :
                                \E k \in 1..Len(tBlock.values) :
                                    /\ tBlock.values[k] = p.m_tValue
                                    /\ p.m_tRowid \in Range(tBlock.postings[k]))

\* row 0 was given the set [5, 7] and row 1 the set [5]: the build emits 5 -> [0, 1]
\* and 7 -> [0]
C15_Witness ==
    /\ Succeeded
    /\ \E i \in 1..Len(m_dAttrs) :
        /\ m_dAttrs[i].m_eType \in ({"UINT32SET", "INT64SET"})
        /\ Len(ReadIndex[i]) = 1
        /\ ReadIndex[i][1].values = <<5, 7>>
        /\ ReadIndex[i][1].postings = << <<0, 1>>, <<0>> >>

IsSetAttrBytes(iAttr) == \E pData \in Strings : SetAttrBytes(iAttr, pData)

RECURSIVE PackedLenFrom(_, _)
PackedLenFrom(dPacked, j) ==
    IF j > Len(dPacked) THEN 0 ELSE dPacked[j].len + PackedLenFrom(dPacked, j + 1)

\* the bytes the flush wrote to the output after the row_start field of its block
LastFieldBytes ==
    LET tBlock == rw.ws[2].dst[1]
    IN  rw.ws[2].dstPos - tBlock.off
            - (VectorLen32Bytes(tBlock.values) + VectorLen32Bytes(tBlock.types) + 1
               + VectorLen32Bytes(tBlock.rowStart))

\* C17 as stated: the last field a block flush writes is the rows_packed payload preceded
\* by a 32-bit length prefix (a packed count as WriteVectorLen32 writes it, or four bytes
\* as WriteVectorRawLen32 does)
C17_RowsPackedHasLengthPrefix ==
    pc = "rw_flushed" =>
        LET iPayload == PackedLenFrom(rw.ws[2].dst[1].rowsPacked, 1)
        IN  LastFieldBytes \in {CalcPackedLen(iPayload, 32) + iPayload, SizeofU32 + iPayload}

\* C17 amended: the last field a block flush writes is the rows_packed payload alone, the
\* items of rows_packed back to back from the end of row_start to the end of the block,
\* with no length before it
C17_RowsPackedIsLastFieldVerbatim ==
    pc = "rw_flushed" =>
        LET tBlock == rw.ws[2].dst[1]
        IN  /\ LastFieldBytes = PackedLenFrom(tBlock.rowsPacked, 1)
            /\ \A j \in 1..Len(tBlock.rowsPacked) :
                    tBlock.rowsPacked[j].off = PackedLenFrom(tBlock.rowsPacked, 1)
                                                  - PackedLenFrom(tBlock.rowsPacked, j)

\* a flushed block whose rows_packed holds a row-block and a list of row-blocks
C17_Witness ==
    /\ pc = "rw_flushed"
    /\ Len(rw.ws[2].dst) = 1
    /\ \E j \in 1..Len(rw.ws[2].dst[1].rowsPacked) : rw.ws[2].dst[1].rowsPacked[j].kind = "count"
    /\ rw.ws[2].dst[1].rowsPacked[1].kind = "rows"
    /\ PackedLenFrom(rw.ws[2].dst[1].rowsPacked, 1) > 0

\* C18: in every flushed block rows_delta_on is true exactly when no group of the block has
\* the ROW tag (no staged group has a single row-id); and when it is true the row_start
\* entries are offsets of items of rows_packed, the first is 0 and they strictly increase,
\* so every stored delta after the first is positive
C18_RowsDeltaFlag ==
    pc = "rw_flushed" =>
        LET tBlock == rw.ws[2].dst[1]
            d == DecodeBlock(tBlock)
            n == Len(d.rowStart)
        IN  /\ n = Len(rw.counts)
            /\ tBlock.bLenDelta <=> (\A k \in 1..n : d.types[k] # "ROW")
            /\ tBlock.bLenDelta <=> (\A k \in 1..n : rw.counts[k] # 1)
            /\ tBlock.bLenDelta =>
                /\ d.rowStart[1] = 0
                /\ \A k \in 1..n :
                       \E j \in 1..Len(tBlock.rowsPacked) : tBlock.rowsPacked[j].off = d.rowStart[k]
                /\ \A k \in 2..n : d.rowStart[k - 1] < d.rowStart[k]
                /\ \A k \in 2..n : tBlock.rowStart.src[k] > 0

\* a flushed block of three groups none of which has a single row-id, with the flag set
C18_Witness ==
    /\ pc = "rw_flushed"
    /\ Len(rw.counts) = 3
    /\ \A k \in 1..3 : rw.counts[k] # 1
    /\ rw.ws[2].dst[1].bLenDelta

\* the encoded row-blocks of the output file
RowBlocks ==
    UNION { {b.rowsPacked[j] : j \in {i \in 1..Len(b.rowsPacked) : b.rowsPacked[i].kind = "rows"}} :
            b \in {r \in Range(Dst) : r.kind = "block"} }

\* C19 as stated: inside every encoded row-block the row-ids are strictly increasing,
\* min_row_id is the first, min_row_id plus the stored difference is the last and every
\* delta after the first is positive, for any input
C19_RowIdsStrictlyIncreasing ==
    Succeeded =>
        \A tItem \in RowBlocks :
            LET dRows == RowBlockRows(tItem)
                n == Len(dRows)
            IN  /\ tItem.tMin = dRows[1]
                /\ tItem.tMin + tItem.tDelta = dRows[n]
                /\ \A j \in 2..n : dRows[j - 1] < dRows[j]
                /\ \A j \in 2..n : tItem.dBuf.src[j] > 0

\* C19 amended: inside every encoded row-block the row-ids are non-decreasing, min_row_id
\* is the first, min_row_id plus the stored difference is the last and no delta after the
\* first is negative; a (value, row-id) pair that was fed more than once puts the row-id
\* next to itself in the posting of the value, with a delta of 0 inside a row-block
C19_RowIdsNonDecreasing ==
    Succeeded =>
        /\ \A tItem \in RowBlocks :
            LET dRows == RowBlockRows(tItem)
                n == Len(dRows)
            IN  /\ tItem.tMin = dRows[1]
                /\ tItem.tMin + tItem.tDelta = dRows[n]
                /\ \A j \in 2..n : dRows[j - 1] <= dRows[j]
                /\ \A j \in 2..n : tItem.dBuf.src[j] >= 0
        /\ LET dIndex == ReadIndex
           IN  \A iAttr \in 1..Len(m_dAttrs) :
                   \A iBlock \in 1..Len(dIndex[iAttr]) :
                       LET tBlock == dIndex[iAttr][iBlock]
                       IN  \A k \in 1..Len(tBlock.values) :
                               \A tRowid \in RowIDs :
                                   CopiesIn(RawValue_T(tBlock.values[k], tRowid), FedTo(iAttr)) >= 2
                                   => \E j \in 2..Len(tBlock.postings[k]) :
                                          /\ tBlock.postings[k][j - 1] = tRowid
                                          /\ tBlock.postings[k][j] = tRowid

\* a successful build with a row-block that repeats a row-id and one that holds two
\* different row-ids
C19_Witness ==
    /\ Succeeded
    /\ \E tItem \in RowBlocks :
           \E j \in 2..Len(tItem.dBuf.src) : tItem.dBuf.src[j] = 0
    /\ \E tItem \in RowBlocks : tItem.tDelta > 0

\* the end of the run that starts at the iRun-th offset of a finished collector
RunEnd(wr, iRun) == IF iRun < Len(wr.m_dOffset) THEN wr.m_dOffset[iRun + 1] ELSE wr.m_iFileSize

\* C20: once the collectors are done, the offsets table and the recorded file size of each
\* describe a partition of its temp file into runs: the size is the file's, the first
\* offset is 0, the offsets strictly increase and the last lies before the size, every
\* run is sorted by (value, row-id) and holds at least one pair, so the first read of every
\* run by the merger succeeds; a collector that was fed nothing has no offset and size 0
C20_RunsPartitionTempFile ==
    pc = "process" =>
        \A i \in ({i \in 1..Len(m_dCidWriter) : i > loc.iWriter}) :
            LET wr == m_dCidWriter[i]
                dData == tmpFiles[wr.m_sSrcName].data
                iItemSize == GetItemSize(wr.kind)
                n == Len(wr.m_dOffset)
            IN  /\ wr.m_iFileSize = Len(dData) * iItemSize
                /\ BagOfSeq(dData, 1, Len(dData)) = FedTo(i)
                /\ n = 0 <=> wr.m_iFileSize = 0
                /\ n > 0 => wr.m_dOffset[1] = 0
                /\ \A iRun \in 1..n :
                    LET dRun == (SubSeq(dData, wr.m_dOffset[iRun] \div GetItemSize(wr.kind) + 1, RunEnd(wr, iRun) \div GetItemSize(wr.kind)))
                    IN  /\ wr.m_dOffset[iRun] < RunEnd(wr, iRun)
                        /\ wr.m_dOffset[iRun] % iItemSize = 0
                        /\ Len(dRun) >= 1
                        /\ \A j \in 2..Len(dRun) : ~RawValueCmp(wr.kind, dRun[j], dRun[j - 1])
                        /\ BinRead([m_tValue |-> 0, m_tRowid |-> 0, pos |-> wr.m_dOffset[iRun],
                                    m_iBinEnd |-> RunEnd(wr, iRun)], dData, iItemSize).ok

\* the collectors are done: one of them has two runs, one of more than one pair, and
\* another, whose every flush found its buffer empty, has none
C20_Witness ==
    /\ pc = "process"
    /\ loc.iWriter = 0
    /\ \E i \in ({i \in 1..Len(m_dCidWriter) : i > loc.iWriter}) :
        /\ Len(m_dCidWriter[i].m_dOffset) = 2
        /\ m_dCidWriter[i].m_iFileSize > 2 * GetItemSize(m_dCidWriter[i].kind)
    /\ \E i \in ({i \in 1..Len(m_dCidWriter) : i > loc.iWriter}) : Len(m_dCidWriter[i].m_dOffset) = 0

\* C21: when the PGM of an attribute is built, the PGM-values file holds exactly the distinct
\* values fed to that attribute, each once, strictly ascending in the collector's value
\* type, so std::is_sorted over the mapped values is true
C21_PGMValuesAreDistinctValues ==
    pc = "pgm" =>
        LET kind == m_dCidWriter[loc.iWriter + 1].kind
            dVals == (MappedBuffer(disk["tmp.pgmvalues"]))
        IN  /\ Range(dVals) = FedValues(loc.iWriter + 1)
            /\ Len(dVals) = Cardinality(FedValues(loc.iWriter + 1))
            /\ \A j \in 2..Len(dVals) : ValueLess(kind, dVals[j - 1], dVals[j])
            /\ \A j \in 2..Len(dVals) : ~ValueLess(kind, dVals[j], dVals[j - 1])

\* the PGM of a second attribute is about to be built from several values, after a first
\* attribute that had values of its own
C21_Witness ==
    /\ pc = "pgm"
    /\ loc.iWriter = 1
    /\ Len((MappedBuffer(disk["tmp.pgmvalues"]))) >= 2
    /\ FedTo(1) # EmptyBag
    /\ FedValues(1) \cap FedValues(2) = {}

\* C22: for an INT64 or INT64SET attribute the distinct values as stored, read as 64-bit
\* unsigned, are strictly ascending within every block and from block to block, whatever
\* the signs of the values fed
C22_Int64StoredAscendingUnsigned ==
    Succeeded =>
        LET dIndex == ReadIndex
        IN  \A iAttr \in ({i \in 1..Len(m_dAttrs) : CollectorOf(i).kind = "I64"}) :
                LET dVals == EmittedValues(dIndex[iAttr])
                IN  \A j \in 2..Len(dVals) : ULess(dVals[j - 1], dVals[j])

\* C23: during Done the attributes are taken one at a time. When the PGM of an attribute is
\* about to be built, its collector's temp file has been merged and unlinked, the PGM-values
\* file exists and holds that attribute's values only, and the PGM blobs saved so far are
\* those of the attributes before it; when the processing of an attribute starts, the
\* PGM-values file does not exist, the temp files of the attributes before it are gone and
\* those of the attributes from it on are still there
C23_FileEventsInOrder ==
    /\ pc = "process" =>
        /\ ~disk["tmp.pgmvalues"].exists
        /\ Len(disk["tmp.pgm"].data) = loc.iWriter
        /\ \A i \in 1..Len(m_dCidWriter) : (tmpFiles[CollectorOf(i).iAttr]).exists <=> i > loc.iWriter
    /\ pc = "pgm" =>
        /\ disk["tmp.pgmvalues"].exists
        /\ Range(disk["tmp.pgmvalues"].data) = FedValues(loc.iWriter + 1)
        /\ Len(disk["tmp.pgm"].data) = loc.iWriter
        /\ Len(merged) = loc.iWriter + 1
        /\ BagOfSeq(merged[loc.iWriter + 1].fwd, 1, Len(merged[loc.iWriter + 1].fwd))
               = FedTo(loc.iWriter + 1)
        /\ \A i \in 1..Len(m_dCidWriter) : (tmpFiles[CollectorOf(i).iAttr]).exists <=> i > loc.iWriter + 1

\* the second attribute's PGM is about to be built; both attributes were fed pairs
C23_Witness ==
    /\ pc = "pgm"
    /\ loc.iWriter = 1
    /\ FedTo(1) # EmptyBag
    /\ FedTo(2) # EmptyBag
    /\ ~(tmpFiles[CollectorOf(2).iAttr]).exists

\* C24: the block-offsets staging file holds one 8-byte entry per flushed block, the output
\* position at which the block starts; the entries strictly increase over the whole build
\* and the first is the header length. After a successful build the table in the output is
\* that list, block_offsets_starts begins at 0, each next start is the start before plus
\* 8 times the block count before, and the last count reaches the end of the list
C24_BlockOffsetsPerBlock ==
    /\ (disk["tmp.meta"].exists /\ disk["dst"].exists) =>
        LET dOffs == disk["tmp.meta"].data
        IN  /\ dOffs = BlockOffsInFile
            /\ Len(dOffs) > 0 => dOffs[1] = (SizeofU32 + SizeofU64)
            /\ \A k \in 2..Len(dOffs) : dOffs[k - 1] < dOffs[k]
    /\ Succeeded =>
        LET dStarts == BlockOffsetsStarts
            n == Len(dStarts)
        IN  /\ BlockOffs = BlockOffsInFile
            /\ Len(BlockOffs) > 0 => BlockOffs[1] = (SizeofU32 + SizeofU64)
            /\ \A k \in 2..Len(BlockOffs) : BlockOffs[k - 1] < BlockOffs[k]
            /\ n = Len(Meta.dBlocksCount)
            /\ dStarts[1] = 0
            /\ \A i \in 1..(n - 1) : dStarts[i + 1] - dStarts[i] = SizeofU64 * Meta.dBlocksCount[i]
            /\ dStarts[n] + SizeofU64 * Meta.dBlocksCount[n] = SizeofU64 * Len(BlockOffs)

\* a successful build of two attributes with a block each
C24_Witness ==
    /\ Succeeded
    /\ Len(BlockOffs) = 2
    /\ Meta.dBlocksCount = <<1, 1>>

\* the SetRowID calls whose pairs the buffer of the collector in slot s holds
BufferedRows(s) == {m_dRawWriter[s].m_dRows[j].m_tRowid : j \in 1..Len(m_dRawWriter[s].m_dRows)}

\* C25 as stated: at every point of any call sequence the buffer of a collector holds pairs
\* of at most m_iMaxRows distinct SetRowID calls, whatever row-ids the driver supplies
C25_BufferWithinThreshold ==
    pc = "collect" =>
        \A s \in 1..Len(m_dRawWriter) :
            ~IsNull(m_dRawWriter[s]) => Cardinality(BufferedRows(s)) <= m_iMaxRows

\* C25 amended: while the driver supplies the consecutive row-ids 0, 1, 2, ..., the buffer
\* of a collector holds pairs of at most m_iMaxRows distinct SetRowID calls, those since
\* the last row-id that is a multiple of m_iMaxRows
C25_BufferWithinThresholdConsecutive ==
    (pc = "collect" /\ (nRowCalls = 0 \/ m_tRowID = nRowCalls - 1)) =>
        \A s \in 1..Len(m_dRawWriter) :
            ~IsNull(m_dRawWriter[s]) =>
                /\ Cardinality(BufferedRows(s)) <= m_iMaxRows
                /\ \A tRowid \in BufferedRows(s) :
                       /\ tRowid <= m_tRowID
                       /\ tRowid >= m_tRowID - (m_tRowID % m_iMaxRows)

\* the driver has supplied the rows 0 .. m_iMaxRows: the buffer was flushed when it held
\* m_iMaxRows rows and holds the last row now
C25_Witness ==
    /\ pc = "collect"
    /\ (nRowCalls = 0 \/ m_tRowID = nRowCalls - 1)
    /\ m_tRowID = m_iMaxRows
    /\ nAttrCalls = m_iMaxRows + 1
    /\ Len(m_dRawWriter[1].m_dOffset) = 1
    /\ Len(tmpFiles[0].data) = m_iMaxRows
    /\ BufferedRows(1) = {m_iMaxRows}

\* C26: for every unsigned 32-bit and 64-bit value v, EncodeValue writes
\* CalcPackedLen(v) = max(1, ceil(bitlength(v)/7)) bytes, the most significant 7-bit group
\* first, every byte but the last with the high bit set and the last with it clear, and
\* DecodeValue applied to those bytes returns v and reads exactly those bytes
C26_VarintRoundTrip ==
    /\ pc \in {"vi_packed", "vi_unpacked"} =>
        LET iBitLen == IF IsZero(rw.tValue) THEN 0
                       ELSE CHOOSE b \in 1..Len(rw.tValue) :
                                rw.tValue[b] = 1 /\ \A k \in (b + 1)..Len(rw.tValue) : rw.tValue[k] = 0
            n == Max(1, (iBitLen + 6) \div 7)
        IN  /\ CalcPackedLenOf(rw.tValue) = n
            /\ Len(rw.dBytes) = n + 1
            /\ \A j \in 1..n :
                /\ rw.dBytes[j] % 128 = Low7(rw.tValue, 7 * (n - j))
                /\ rw.dBytes[j] >= 128 <=> j < n
    /\ pc = "vi_unpacked" =>
        /\ rw.tRead = rw.tValue
        /\ rw.iRead = CalcPackedLenOf(rw.tValue)

\* the largest 64-bit value was packed into ten bytes and unpacked again
C26_Witness ==
    /\ pc = "vi_unpacked"
    /\ rw.tValue = Ones(64, 64)
    /\ Len(rw.dBytes) = 11
    /\ rw.dBytes[1] = 129

\* the pairs of a bag in the collector's order, every copy of a pair next to the others
RECURSIVE SortedPairs(_, _)
SortedPairs(kind, bag) ==
    IF DOMAIN bag = {} THEN << >>
    ELSE LET tMin == CHOOSE x \in DOMAIN bag : \A y \in DOMAIN bag : ~RawValueCmp(kind, y, x)
         IN  [j \in 1..bag[tMin] |-> tMin]
                 \o SortedPairs(kind, [x \in DOMAIN bag \ {tMin} |-> bag[x]])

\* NextValue for the pairs lo..hi of a sorted stream, in order
RECURSIVE FeedPairs(_, _, _, _, _, _)
FeedPairs(ws, kind, dPairs, lo, hi, align) ==
    IF lo > hi THEN ws
    ELSE IF lo = hi THEN NextValue(ws, Convert(kind, dPairs[lo]), DstBits(kind), align)
    ELSE LET mid == (lo + hi) \div 2
             half == FeedPairs(ws, kind, dPairs, lo, mid, align)
         IN  IF Len(half[1].m_dRows) >= 0 THEN FeedPairs(half, kind, dPairs, mid + 1, hi, align)
             ELSE half

\* the blocks a row writer emits at iDstPos for the pairs of a bag taken in sorted order
BlocksOfBag(kind, bag, iDstPos) ==
    LET dPairs == SortedPairs(kind, bag)
        ws0 == << NewRowWriter, NewSink(iDstPos) >>
    IN  IF Len(dPairs) = 0 THEN << >>
        ELSE FlushBlock(FeedPairs(AddValue(ws0, Convert(kind, dPairs[1])), kind, dPairs,
                                  2, Len(dPairs), 0),
                        DstBits(kind), 0)[2].dst

\* the blocks of the attributes i.. of the meta, one attribute after the other from iDstPos
RECURSIVE BlocksOfBags(_, _)
BlocksOfBags(i, iDstPos) ==
    IF i > Len(m_dAttrs) THEN << >>
    ELSE LET dBlocks == BlocksOfBag(CollectorOf(i).kind, FedTo(i), iDstPos)
             iNext == IF Len(dBlocks) = 0 THEN iDstPos
                      ELSE dBlocks[Len(dBlocks)].off + dBlocks[Len(dBlocks)].len
         IN  dBlocks \o BlocksOfBags(i + 1, iNext)

\* C27: the blocks of a successful build (groups, postings, tags, block boundaries) are a
\* function of the schema and of the pairs fed: they are the blocks a row writer emits for
\* those pairs in sorted order, whatever the runs they were flushed in and wherever the
\* row buffer lies in memory. For a string attribute the groups are the hashes of the
\* strings fed, one group per hash
C27_BuildsAreDeterministic ==
    Succeeded =>
        /\ SelectSeq(Dst, LAMBDA r : r.kind = "block") = BlocksOfBags(1, (SizeofU32 + SizeofU64))
        /\ LET dIndex == ReadIndex
           IN  \A i \in ({i \in 1..Len(m_dAttrs) : m_dAttrs[i].m_eType \in ({"STRING"})}) :
                   LET dVals == EmittedValues(dIndex[i])
                   IN  /\ Range(dVals) \subseteq {StrHash(s) : s \in Strings}
                       /\ Range(dVals) = FedValues(i)
                       /\ \A j, k \in 1..Len(dVals) : dVals[j] = dVals[k] => j = k

\* a successful build whose string attribute got one value from two runs, for two rows
C27_Witness ==
    /\ Succeeded
    /\ \E i \in ({i \in 1..Len(m_dAttrs) : m_dAttrs[i].m_eType \in ({"STRING"})}) :
        /\ merged[i].nRuns = 2
        /\ Cardinality(FedValues(i)) = 1
        /\ BagCardinality(FedTo(i)) = 2
        /\ Cardinality(DOMAIN FedTo(i)) = 2

\* C28: once Done has returned true the collectors are gone (m_dRawWriter is empty, so no
\* attribute index passes the guard of SetAttr and Flush has nothing to flush), and every
\* later SetRowID or SetAttr leaves the collectors, the writers, the collectors' temp
\* files, every other file and, with them, the completed output file as they are
C28_LateCallsAreNoOps ==
    /\ [](pc = "done" => /\ m_dRawWriter = << >>
                         /\ \A iAttr \in AttrIndexes : ~HasWriter(iAttr)
                         /\ BuilderFlush = << >>)
    /\ [][ (pc = "done" /\ pc' = "done") =>
             UNCHANGED <<m_dRawWriter, m_dCidWriter, tmpFiles, disk, fed, merged, sError>> ]_vars

\* Done has returned true and the last call was a SetRowID after it, with a row-id that
\* makes SetRowID flush
C28_Witness ==
    /\ pc = "done"
    /\ nRowCalls = MaxRowCalls + MaxLateCalls
    /\ m_tRowID = 0
    /\ disk["dst"].exists

\* C29: a second Done on a builder whose first Done returned true leaves the output file
\* as the first Done completed it and does not end in a call through a released writer
C29_SecondDoneKeepsOutput ==
    [][ (pc = "done" /\ pc' # "done") =>
          /\ pc' # "crashed"
          /\ disk'["dst"] = disk["dst"] ]_vars

\* C30: CreateBuilder and Done are well defined on every attribute list: Setup never
\* divides by a row size of 0, Done never reaches the end of its loop with an empty
\* block-count table, whose last element it then takes, and the process never dies
C30_NoCollectorWellDefined ==
    /\ [][ (pc = "create" /\ pc' # "create") => RowSizeOf(dSrcAttrs) # 0 ]_vars
    /\ [][ (pc = "collect" /\ pc' \notin {"collect", "failed"}) => Len(m_dCidWriter') > 0 ]_vars
    /\ [](pc # "crashed")

====
